---- MODULE Spec2Model ----
(***************************************************************************)
(* Model of the household generation pipeline of HouseholdRNG              *)
(* (generator/pipeline.py and the stage generators it drives).             *)
(*                                                                         *)
(* Strings that the code parses (age brackets, gap brackets, SOC codes)    *)
(* are sequences of one-character strings, so that parsing is modelled by  *)
(* what it does.  The process-wide numpy random source is the variable     *)
(* rng: every np.random call advances it and derives its value from it.    *)
(***************************************************************************)
EXTENDS Integers, Sequences, FiniteSets, TLC

\* ------------------------------------------------------------------------
\* Bounds of the model
\* ------------------------------------------------------------------------
\* number of states the random source may be in before the first call
NumInitRng == 6
\* seeds a caller may pass (1..NumSeeds)
NumSeeds == 2
\* largest count passed to generate_batch
MaxBatch == 2
\* calls made on one generator instance
MaxCalls == 2
\* states of the random source before a direct call of a sampler function
NumSamplerRng == 12
\* rows of the tables passed to weighted_sample directly
MaxRows == 3

\* ------------------------------------------------------------------------
\* State
\* ------------------------------------------------------------------------
VARIABLES
    dist,        \* self.distributions: table name -> table, fixed at construction
    rng,         \* state of the process-wide numpy random source
    pc,          \* where the running call stands
    args,        \* arguments of the running (or last) call
    cur,         \* the Household being built, as a sequence of at most one
    households,  \* households completed by the running (or last) call
    remaining,   \* households the running call still has to generate
    stagesRun,   \* stage numbers run so far on the household in cur
    prev,        \* outcome of the call before the running one
    calls,       \* calls started on this generator
    nextId       \* source of the fresh uuid4 identifiers

vars == << dist, rng, pc, args, cur, households, remaining, stagesRun, prev,
           calls, nextId >>

\* ------------------------------------------------------------------------
\* Python string operations on sequences of characters
\* ------------------------------------------------------------------------
None == "None"

Digits == {"0", "1", "2", "3", "4", "5", "6", "7", "8", "9"}

DigitVal(c) ==
    CASE c = "0" -> 0 [] c = "1" -> 1 [] c = "2" -> 2 [] c = "3" -> 3
      [] c = "4" -> 4 [] c = "5" -> 5 [] c = "6" -> 6 [] c = "7" -> 7
      [] c = "8" -> 8 [] c = "9" -> 9 [] OTHER -> 0

Min(a, b) == IF a <= b THEN a ELSE b

Max(a, b) == IF a >= b THEN a ELSE b

\* s[from:] of Python
Drop(s, n) == IF n >= Len(s) THEN << >> ELSE SubSeq(s, n + 1, Len(s))

\* s[:n] of Python
Take(s, n) == IF n >= Len(s) THEN s ELSE SubSeq(s, 1, n)

StartsWith(s, c) == Len(s) > 0 /\ s[1] = c

EndsWith(s, c) == Len(s) > 0 /\ s[Len(s)] = c

Contains(s, c) == \E i \in 1..Len(s) : s[i] = c

\* s.replace(c, '') of Python
Remove(s, c) == SelectSeq(s, LAMBDA x : x # c)

\* position of the first c in s, 0 when there is none
RECURSIVE IndexFrom(_, _, _)
IndexFrom(s, c, i) ==
    IF i > Len(s) THEN 0
    ELSE IF s[i] = c THEN i
    ELSE IndexFrom(s, c, i + 1)

\* s.split(c) of Python: the list of the parts between the separators
RECURSIVE Split(_, _)
Split(s, c) ==
    LET i == IndexFrom(s, c, 1)
    IN  IF i = 0 THEN << s >>
        ELSE << Take(s, i - 1) >> \o Split(Drop(s, i), c)

RECURSIVE DigitsValue(_, _)
DigitsValue(s, acc) ==
    IF s = << >> THEN acc
    ELSE DigitsValue(Tail(s), acc * 10 + DigitVal(Head(s)))

AllDigits(s) == Len(s) > 0 /\ \A i \in 1..Len(s) : s[i] \in Digits

\* str.strip(): leading and trailing blanks removed
RECURSIVE Strip(_)
Strip(s) ==
    IF s # << >> /\ Head(s) = " " THEN Strip(Tail(s))
    ELSE IF s # << >> /\ s[Len(s)] = " " THEN Strip(Take(s, Len(s) - 1))
    ELSE s

\* a decimal literal: an optional sign and at least one digit
ParseDigits(s) ==
    IF Len(s) > 0 /\ s[1] \in {"-", "+"}
    THEN IF AllDigits(Tail(s))
         THEN [ok |-> TRUE,
               val |-> IF s[1] = "-" THEN 0 - DigitsValue(Tail(s), 0)
                       ELSE DigitsValue(Tail(s), 0)]
         ELSE [ok |-> FALSE, val |-> 0]
    ELSE IF AllDigits(s)
         THEN [ok |-> TRUE, val |-> DigitsValue(s, 0)]
         ELSE [ok |-> FALSE, val |-> 0]

\* int(s) of Python: blanks around the literal are ignored; ValueError when
\* what is left is no decimal literal
ParseInt(s) == ParseDigits(Strip(s))

\* ------------------------------------------------------------------------
\* The process-wide random source (np.random)
\* ------------------------------------------------------------------------
\* one step of the generator's state
RngStep(r) == (r * 2003 + 7) % 1000003

\* mutation of set_random_seed: the seed leaves the random source as it is
set_random_seed_ignored(seed) == rng

\* np.random.seed(seed): the state is a function of the seed alone
set_random_seed(seed) == (seed * 7919 + 13) % 1000003

\* result of an operation that consumes randomness: value, state left, raised
Ok(v, r) == [v |-> v, rng |-> r, err |-> FALSE]

Raised(r) == [v |-> 0, rng |-> r, err |-> TRUE]

\* an exception raised by a callee propagates through its caller; otherwise
\* the caller goes on with the callee's result
Then(x, Continue(_)) == IF x.err THEN Raised(x.rng) ELSE Continue(x)

\* a local variable bound once to a value
With(x, Continue(_)) == Continue(x)

\* np.random.randint(lo, hi): uniform over lo..hi-1, ValueError when lo >= hi
randint(lo, hi, r) ==
    IF lo >= hi THEN Raised(r)
    ELSE Ok(lo + (RngStep(r) % (hi - lo)), RngStep(r))

\* np.random.random() < pct/100
random_lt(pct, r) == Ok((RngStep(r) % 100) < pct, RngStep(r))

\* np.random.uniform(a, b) then int(): a point of [a, b), on a grid of quarters
uniform(a, b, r) == Ok(a + ((RngStep(r) % 4) * (b - a)) \div 4, RngStep(r))

\* standard deviations a normal draw may lie from its mean, in tenths
NormalZ == << -60, -10, 0, 10, 60 >>

\* int(np.random.normal(mean, mean * sdPct/100)); ValueError for a negative scale
normal(mean, sdPct, r) ==
    IF mean * sdPct < 0 THEN Raised(r)
    ELSE LET z == NormalZ[1 + (RngStep(r) % Len(NormalZ))]
             dev == (mean * sdPct * (IF z < 0 THEN 0 - z ELSE z)) \div 1000
         IN  Ok(IF z < 0 THEN mean - dev ELSE mean + dev, RngStep(r))

\* multiples of the scale an exponential draw may take, in tenths
ExpoK == << 0, 5, 10, 40 >>

\* int(np.random.exponential(scale))
exponential(scale, r) ==
    Ok((scale * ExpoK[1 + (RngStep(r) % Len(ExpoK))]) \div 10, RngStep(r))

\* np.random.choice(options, p): index of the option chosen, weights in percent
RECURSIVE PickIndex(_, _, _)
PickIndex(weights, u, i) ==
    IF i >= Len(weights) THEN i
    ELSE IF u < weights[i] THEN i
    ELSE PickIndex(weights, u - weights[i], i + 1)

RECURSIVE SumSeq(_)
SumSeq(s) == IF s = << >> THEN 0 ELSE Head(s) + SumSeq(Tail(s))

choice(options, weights, r) ==
    Ok(options[PickIndex(weights, RngStep(r) % SumSeq(weights), 1)], RngStep(r))

\* np.random.shuffle(list): a rotation chosen by the random source
shuffle(s, r) ==
    LET k == RngStep(r) % Len(s)
    IN  Ok(Drop(s, k) \o Take(s, k), RngStep(r))

\* ------------------------------------------------------------------------
\* sampler.py
\* ------------------------------------------------------------------------
\* weights of the rows of a table, column col
Column(rows, col) == [i \in 1..Len(rows) |-> rows[i][col]]

\* mutation of weighted_sample: weights that are all zero do not raise and
\* the first row is returned
weighted_sample_zero_ok(rows, weight_col, r) ==
    IF Len(rows) = 0 THEN Raised(r)
    ELSE IF SumSeq(Column(rows, weight_col)) = 0 THEN Ok(rows[1], RngStep(r))
    ELSE Ok(rows[PickIndex(Column(rows, weight_col),
                           RngStep(r) % SumSeq(Column(rows, weight_col)), 1)],
            RngStep(r))

\* mutation of weighted_sample: every row is as likely as any other
weighted_sample_unweighted(rows, weight_col, r) ==
    IF Len(rows) = 0 THEN Raised(r)
    ELSE IF SumSeq(Column(rows, weight_col)) = 0 THEN Raised(r)
    ELSE Ok(rows[(RngStep(r) % Len(rows)) + 1], RngStep(r))

weighted_sample(rows, weight_col, r) ==
    IF Len(rows) = 0 THEN Raised(r)
    ELSE LET weights == Column(rows, weight_col)
         IN  IF SumSeq(weights) = 0 THEN Raised(r)
             ELSE Ok(rows[PickIndex(weights, RngStep(r) % SumSeq(weights), 1)],
                     RngStep(r))

match_age_bracket(age, bracket) ==
    LET b == Strip(bracket)
    IN  IF StartsWith(b, "<")
        THEN LET p == ParseInt(Tail(b)) IN p.ok /\ age < p.val
        ELSE IF EndsWith(b, "+")
        THEN LET p == ParseInt(Take(b, Len(b) - 1))
             IN  p.ok /\ age >= p.val
        ELSE IF Contains(b, "-")
        THEN LET parts == Split(b, "-")
                 lo == ParseInt(parts[1])
                 hi == ParseInt(parts[2])
             IN  lo.ok /\ hi.ok /\ lo.val <= age /\ age <= hi.val
        ELSE LET p == ParseInt(b) IN p.ok /\ age = p.val

\* the first bracket of the list that contains the age; without one, the last
\* bracket of the list, or '18-24' for an empty list
get_age_bracket(age, brackets) ==
    LET containing == SelectSeq(brackets, LAMBDA b : match_age_bracket(age, b))
    IN  IF containing # << >> THEN containing[1]
        ELSE IF brackets # << >> THEN brackets[Len(brackets)]
        ELSE << "1", "8", "-", "2", "4" >>

\* mutation of sample_age_from_bracket: the limit of '<N' can be drawn
sample_age_from_bracket_inclusive(bracket, r) ==
    LET b == Strip(bracket)
    IN  IF StartsWith(b, "<")
        THEN LET p == ParseInt(Tail(b))
             IN  IF p.ok THEN randint(0, p.val + 1, r) ELSE Raised(r)
        ELSE IF EndsWith(b, "+")
        THEN LET p == ParseInt(Take(b, Len(b) - 1))
                 e == exponential(10, r)
             IN  IF p.ok THEN Ok(p.val + e.v, e.rng) ELSE Raised(r)
        ELSE IF Contains(b, "-")
        THEN LET parts == Split(b, "-")
                 lo == ParseInt(parts[1])
                 hi == ParseInt(parts[2])
             IN  IF lo.ok /\ hi.ok THEN randint(lo.val, hi.val + 1, r)
                 ELSE Raised(r)
        ELSE LET p == ParseInt(b)
             IN  IF p.ok THEN Ok(p.val, r) ELSE Raised(r)

sample_age_from_bracket(bracket, r) ==
    LET b == Strip(bracket)
    IN  IF StartsWith(b, "<")
        THEN LET p == ParseInt(Tail(b))
             IN  IF p.ok THEN randint(0, p.val, r) ELSE Raised(r)
        ELSE IF EndsWith(b, "+")
        THEN LET p == ParseInt(Take(b, Len(b) - 1))
                 e == exponential(10, r)
             IN  IF p.ok THEN Ok(p.val + e.v, e.rng) ELSE Raised(r)
        ELSE IF Contains(b, "-")
        THEN LET parts == Split(b, "-")
                 lo == ParseInt(parts[1])
                 hi == ParseInt(parts[2])
             IN  IF lo.ok /\ hi.ok THEN randint(lo.val, hi.val + 1, r)
                 ELSE Raised(r)
        ELSE LET p == ParseInt(b)
             IN  IF p.ok THEN Ok(p.val, r) ELSE Raised(r)

\* ------------------------------------------------------------------------
\* models.py
\* ------------------------------------------------------------------------
HOUSEHOLDER == "householder"

SPOUSE == "spouse"

UNMARRIED_PARTNER == "unmarried_partner"

BIOLOGICAL_CHILD == "biological_child"

STEPCHILD == "stepchild"

GRANDCHILD == "grandchild"

PARENT == "parent"

OTHER_RELATIVE == "other_relative"

EMPLOYED == "employed"

UNEMPLOYED == "unemployed"

NOT_IN_LABOR_FORCE == "not_in_labor_force"

\* occupation_code / occupation_title of a person without occupation (None)
NoOccupation == << >>

KnownPatterns ==
    {"married_couple_no_children", "married_couple_with_children",
     "single_parent", "single_adult", "blended_family", "multigenerational",
     "unmarried_partners", "other"}

\* expected_adults is a number (lo = hi, range FALSE) or a tuple (range TRUE)
PATTERN_METADATA ==
    [p \in KnownPatterns |->
        CASE p = "married_couple_no_children" ->
               [expected_adults |-> [range |-> FALSE, lo |-> 2, hi |-> 2],
                expected_children |-> << 0, 0 >>, complexity |-> "simple"]
          [] p = "married_couple_with_children" ->
               [expected_adults |-> [range |-> FALSE, lo |-> 2, hi |-> 2],
                expected_children |-> << 1, 5 >>, complexity |-> "simple"]
          [] p = "single_parent" ->
               [expected_adults |-> [range |-> FALSE, lo |-> 1, hi |-> 1],
                expected_children |-> << 1, 4 >>, complexity |-> "simple"]
          [] p = "single_adult" ->
               [expected_adults |-> [range |-> FALSE, lo |-> 1, hi |-> 1],
                expected_children |-> << 0, 0 >>, complexity |-> "simple"]
          [] p = "blended_family" ->
               [expected_adults |-> [range |-> FALSE, lo |-> 2, hi |-> 2],
                expected_children |-> << 2, 5 >>, complexity |-> "complex"]
          [] p = "multigenerational" ->
               [expected_adults |-> [range |-> TRUE, lo |-> 2, hi |-> 4],
                expected_children |-> << 0, 3 >>, complexity |-> "complex"]
          [] p = "unmarried_partners" ->
               [expected_adults |-> [range |-> FALSE, lo |-> 2, hi |-> 2],
                expected_children |-> << 0, 3 >>, complexity |-> "complex"]
          [] OTHER ->
               [expected_adults |-> [range |-> TRUE, lo |-> 1, hi |-> 5],
                expected_children |-> << 0, 3 >>, complexity |-> "medium"]]

\* PATTERN_METADATA.get(pattern, PATTERN_METADATA['other'])
Metadata(pattern) ==
    IF pattern \in KnownPatterns THEN PATTERN_METADATA[pattern]
    ELSE PATTERN_METADATA["other"]

\* the letters of a pattern name, for the substring tests made on it
Spell(p) ==
    CASE p = "married_couple_no_children" -> <<"m", "a", "r", "r", "i", "e", "d", "_", "c", "o", "u", "p", "l", "e", "_", "n", "o", "_", "c", "h", "i", "l", "d", "r", "e", "n">>
      [] p = "married_couple_with_children" -> <<"m", "a", "r", "r", "i", "e", "d", "_", "c", "o", "u", "p", "l", "e", "_", "w", "i", "t", "h", "_", "c", "h", "i", "l", "d", "r", "e", "n">>
      [] p = "single_parent" -> <<"s", "i", "n", "g", "l", "e", "_", "p", "a", "r", "e", "n", "t">>
      [] p = "single_adult" -> <<"s", "i", "n", "g", "l", "e", "_", "a", "d", "u", "l", "t">>
      [] p = "blended_family" -> <<"b", "l", "e", "n", "d", "e", "d", "_", "f", "a", "m", "i", "l", "y">>
      [] p = "multigenerational" -> <<"m", "u", "l", "t", "i", "g", "e", "n", "e", "r", "a", "t", "i", "o", "n", "a", "l">>
      [] p = "unmarried_partners" -> <<"u", "n", "m", "a", "r", "r", "i", "e", "d", "_", "p", "a", "r", "t", "n", "e", "r", "s">>
      [] p = "other" -> <<"o", "t", "h", "e", "r">>
      [] p = "group_quarters" -> <<"g", "r", "o", "u", "p", "_", "q", "u", "a", "r", "t", "e", "r", "s">>
      [] OTHER -> << >>

Person(person_id, relationship, age, sex, race, hispanic_origin,
       employment_status, education, occupation_code, occupation_title,
       has_disability) ==
    [person_id |-> person_id, relationship |-> relationship, age |-> age,
     sex |-> sex, race |-> race, hispanic_origin |-> hispanic_origin,
     employment_status |-> employment_status, education |-> education,
     occupation_code |-> occupation_code,
     occupation_title |-> occupation_title,
     has_disability |-> has_disability,
     wage_income |-> 0, self_employment_income |-> 0,
     social_security_income |-> 0, retirement_income |-> 0,
     interest_income |-> 0, dividend_income |-> 0, other_income |-> 0,
     public_assistance_income |-> 0,
     student_loan_interest |-> 0, educator_expenses |-> 0,
     ira_contributions |-> 0]

total_income(p) ==
    p.wage_income + p.self_employment_income + p.social_security_income
    + p.retirement_income + p.interest_income + p.dividend_income
    + p.other_income + p.public_assistance_income

is_adult(p) == p.age >= 18

\* mutation of is_child: a member aged 17 is counted as neither adult nor child
is_child_under_17(p) == p.age < 17

is_child(p) == p.age < 18

Household(household_id, state, year, pattern, expected_adults,
          expected_children_range, expected_complexity) ==
    [household_id |-> household_id, state |-> state, year |-> year,
     pattern |-> pattern, members |-> << >>,
     expected_adults |-> expected_adults,
     expected_children_range |-> expected_children_range,
     expected_complexity |-> expected_complexity,
     multigenerational_subpattern |-> None,
     property_taxes |-> 0, mortgage_interest |-> 0, state_income_tax |-> 0,
     medical_expenses |-> 0, charitable_contributions |-> 0,
     student_loan_interest |-> 0, educator_expenses |-> 0,
     ira_contributions |-> 0, child_care_expenses |-> 0,
     education_expenses |-> 0, total_itemized_deductions |-> 0,
     total_above_line_deductions |-> 0]

get_adults(h) == SelectSeq(h.members, is_adult)

get_children(h) == SelectSeq(h.members, is_child)

adult_count(h) == Len(get_adults(h))

child_count(h) == Len(get_children(h))

\* first member with the relationship, as a sequence of at most one person
FirstWith(members, relationship) ==
    Take(SelectSeq(members, LAMBDA p : p.relationship = relationship), 1)

get_householder(h) == FirstWith(h.members, HOUSEHOLDER)

RECURSIVE SumIncome(_)
SumIncome(members) ==
    IF members = << >> THEN 0
    ELSE total_income(Head(members)) + SumIncome(Tail(members))

total_household_income(h) == SumIncome(h.members)

\* ------------------------------------------------------------------------
\* Distribution tables (the mapping the DistributionLoader returns)
\* ------------------------------------------------------------------------
Table(rows) == [present |-> TRUE, rows |-> rows]

\* a table the loader could not load: distributions.get(name) is None
Absent == [present |-> FALSE, rows |-> << >>]

\* a check that takes every table for loaded
Usable_always(t) == TRUE

\* distributions.get(name) is not None and len(...) > 0
Usable(t) == t.present /\ Len(t.rows) > 0

PatternRow(p, w) == [pattern |-> p, weight |-> w]

HouseholdPatternsFull ==
    << PatternRow("blended_family", 3),
       PatternRow("married_couple_no_children", 5),
       PatternRow("married_couple_with_children", 4),
       PatternRow("multigenerational", 4),
       PatternRow("single_adult", 0),
       PatternRow("single_parent", 3),
       PatternRow("unmarried_partners", 3),
       PatternRow("other", 2),
       PatternRow("group_quarters", 1) >>

HouseholdPatternsNoMedium ==
    << PatternRow("married_couple_no_children", 0),
       PatternRow("single_parent", 2),
       PatternRow("multigenerational", 0) >>

HouseholdPatternsSingleParent == << PatternRow("single_parent", 1) >>

HouseholdPatternsZero ==
    << PatternRow("single_adult", 0),
       PatternRow("multigenerational", 0),
       PatternRow("other", 0) >>

EmploymentRow(b, sex, status, w) ==
    [age_bracket |-> b, sex |-> sex, employment_status |-> status, weight |-> w]

EmploymentByAge ==
    << EmploymentRow(<<"1", "8", "-", "2", "4">>, "male", EMPLOYED, 5),
       EmploymentRow(<<"1", "8", "-", "2", "4">>, "male", UNEMPLOYED, 2),
       EmploymentRow(<<"1", "8", "-", "2", "4">>, "female", NOT_IN_LABOR_FORCE, 4),
       EmploymentRow(<<"1", "8", "-", "2", "4">>, "female", EMPLOYED, 3),
       EmploymentRow(<<"2", "5", "-", "6", "4">>, "male", EMPLOYED, 8),
       EmploymentRow(<<"2", "5", "-", "6", "4">>, "male", NOT_IN_LABOR_FORCE, 1),
       EmploymentRow(<<"2", "5", "-", "6", "4">>, "female", EMPLOYED, 6),
       EmploymentRow(<<"2", "5", "-", "6", "4">>, "female", UNEMPLOYED, 2),
       EmploymentRow(<<"6", "5", "+">>, "male", NOT_IN_LABOR_FORCE, 5),
       EmploymentRow(<<"6", "5", "+">>, "male", EMPLOYED, 2),
       EmploymentRow(<<"6", "5", "+">>, "female", NOT_IN_LABOR_FORCE, 6) >>

MultigenerationalPatterns ==
    << [pattern |-> "adult_with_parent", weighted_count |-> 4],
       [pattern |-> "four_generations", weighted_count |-> 2],
       [pattern |-> "grandparent_with_grandchildren", weighted_count |-> 3],
       [pattern |-> "other", weighted_count |-> 1] >>

SpousalAgeGaps ==
    << [age_gap_bracket |-> <<"-", "6", "_", "o", "r", "_", "l", "e", "s", "s">>, weight |-> 1],
       [age_gap_bracket |-> <<"-", "5", "_", "t", "o", "_", "-", "1">>, weight |-> 3],
       [age_gap_bracket |-> <<"0">>, weight |-> 4],
       [age_gap_bracket |-> <<"1", "_", "t", "o", "_", "5">>, weight |-> 3],
       [age_gap_bracket |-> <<"6", "_", "o", "r", "_", "m", "o", "r", "e">>, weight |-> 1] >>

CoupleSexPatterns ==
    << [couple_type |-> "married", sex_pattern |-> <<"M", "_", "F">>, weight |-> 5],
       [couple_type |-> "married", sex_pattern |-> <<"F", "_", "M">>, weight |-> 4],
       [couple_type |-> "married", sex_pattern |-> <<"F", "_", "F">>, weight |-> 1],
       [couple_type |-> "unmarried", sex_pattern |-> <<"M", "_", "F">>, weight |-> 3],
       [couple_type |-> "unmarried", sex_pattern |-> <<"M", "_", "M">>, weight |-> 2] >>

RaceByAge ==
    << [age_bracket |-> <<"<", "1", "8">>, race |-> "two_or_more", weight |-> 1],
       [age_bracket |-> <<"1", "8", "-", "6", "4">>, race |-> "asian", weight |-> 4],
       [age_bracket |-> <<"1", "8", "-", "6", "4">>, race |-> "white", weight |-> 3],
       [age_bracket |-> <<"6", "5", "+">>, race |-> "white", weight |-> 2],
       [age_bracket |-> <<"6", "5", "+">>, race |-> "native_hawaiian_pacific_islander",
        weight |-> 1] >>

RaceDistribution ==
    << [race |-> "asian", weight |-> 4],
       [race |-> "black", weight |-> 1] >>

HispanicOriginByAge ==
    << [age_bracket |-> <<"1", "8", "-", "6", "4">>, hispanic_origin |-> "hispanic", weight |-> 1],
       [age_bracket |-> <<"1", "8", "-", "6", "4">>, hispanic_origin |-> "not_hispanic",
        weight |-> 3] >>

EducationByAge ==
    << [age_bracket |-> <<"1", "8", "-", "2", "4">>, education_level |-> "high_school",
        weighted_count |-> 3],
       [age_bracket |-> <<"1", "8", "-", "2", "4">>, education_level |-> "some_college",
        weighted_count |-> 2],
       [age_bracket |-> <<"2", "5", "-", "6", "4">>, education_level |-> "bachelors",
        weighted_count |-> 3],
       [age_bracket |-> <<"2", "5", "-", "6", "4">>, education_level |-> "masters",
        weighted_count |-> 1],
       [age_bracket |-> <<"2", "5", "-", "6", "4">>, education_level |-> "less_than_hs",
        weighted_count |-> 1],
       [age_bracket |-> <<"6", "5", "+">>, education_level |-> "high_school",
        weighted_count |-> 2] >>

DisabilityByAge ==
    << [age_bracket |-> <<"<", "1", "8">>, disability_percentage |-> 4],
       [age_bracket |-> <<"1", "8", "-", "6", "4">>, disability_percentage |-> 10],
       [age_bracket |-> <<"6", "5", "+">>, disability_percentage |-> 35] >>

EducationOccupationProbabilities ==
    << [education_level |-> "hs_graduate", soc_major_group |-> <<"4", "1">>,
        weighted_count |-> 3],
       [education_level |-> "hs_graduate", soc_major_group |-> <<"5", "3">>,
        weighted_count |-> 1],
       [education_level |-> "bachelors", soc_major_group |-> <<"2", "5">>,
        weighted_count |-> 2],
       [education_level |-> "bachelors", soc_major_group |-> <<"1", "1">>,
        weighted_count |-> 2],
       [education_level |-> "masters", soc_major_group |-> <<"1", "1">>,
        weighted_count |-> 1] >>

\* a wage of 0 stands for a missing (NaN) percentile
OccupationRow(code, title, count, p10, p25, median, p75, p90) ==
    [soc_code |-> code, occupation_title |-> title, employment_count |-> count,
     p10_annual_wage |-> p10, p25_annual_wage |-> p25,
     median_annual_wage |-> median, p75_annual_wage |-> p75,
     p90_annual_wage |-> p90]

BlsOccupationWages ==
    << OccupationRow(<<"1", "1", "-", "1", "0", "1", "1">>, "Chief Executives", 1,
                     90000, 150000, 300000, 500000, 900000),
       OccupationRow(<<"2", "5", "-", "2", "0", "2", "1">>, "Elementary School Teachers", 3,
                     40000, 48000, 60000, 72000, 85000),
       OccupationRow(<<"4", "1", "-", "2", "0", "3", "1">>, "Retail Salespersons", 5,
                     24000, 27000, 31000, 0, 45000) >>

ChildrenByParentAge ==
    << [parent_age_bracket |-> <<"1", "8", "-", "2", "9">>, num_children |-> 0, weight |-> 2],
       [parent_age_bracket |-> <<"1", "8", "-", "2", "9">>, num_children |-> 1, weight |-> 3],
       [parent_age_bracket |-> <<"3", "0", "-", "4", "9">>, num_children |-> 0, weight |-> 1],
       [parent_age_bracket |-> <<"3", "0", "-", "4", "9">>, num_children |-> 2, weight |-> 3],
       [parent_age_bracket |-> <<"3", "0", "-", "4", "9">>, num_children |-> 7, weight |-> 1] >>

\* a table of parents who all have no children
ChildrenByParentAgeNone ==
    << [parent_age_bracket |-> <<"1", "8", "-", "6", "5">>, num_children |-> 0, weight |-> 1] >>

ChildAgeDistributions ==
    << [parent_age_bracket |-> <<"1", "8", "-", "2", "9">>, child_age_group |-> <<"0", "-", "5">>,
        weight |-> 4],
       [parent_age_bracket |-> <<"1", "8", "-", "2", "9">>, child_age_group |-> <<"6", "-", "1", "2">>,
        weight |-> 1],
       [parent_age_bracket |-> <<"3", "0", "-", "4", "9">>, child_age_group |-> <<"0", "-", "5">>,
        weight |-> 2],
       [parent_age_bracket |-> <<"3", "0", "-", "4", "9">>, child_age_group |-> <<"6", "-", "1", "2">>,
        weight |-> 3],
       [parent_age_bracket |-> <<"3", "0", "-", "4", "9">>, child_age_group |-> <<"1", "3", "-", "1", "7">>,
        weight |-> 3],
       [parent_age_bracket |-> <<"5", "5", "+">>, child_age_group |-> <<"1", "3", "-", "1", "7">>,
        weight |-> 2],
       [parent_age_bracket |-> <<"5", "5", "+">>, child_age_group |-> <<"1", "8", "+">>,
        weight |-> 1] >>

StepchildPatterns ==
    << [pattern |-> <<"s", "t", "e", "p", "_", "o", "n", "l", "y">>, weighted_count |-> 2],
       [pattern |-> <<"b", "i", "o", "_", "o", "n", "l", "y">>, weighted_count |-> 2],
       [pattern |-> <<"b", "i", "o", "_", "a", "n", "d", "_", "s", "t", "e", "p">>, weighted_count |-> 3],
       [pattern |-> <<"o", "n", "l", "y", "_", "s", "t", "e", "p", "_", "1">>, weighted_count |-> 1] >>

AgeIncomeAdjustments ==
    << [age_bracket |-> <<"1", "8", "-", "2", "4">>, multiplier |-> 75],
       [age_bracket |-> <<"2", "5", "-", "6", "4">>, multiplier |-> 100] >>

OccupationSelfEmploymentProbability ==
    << [soc_code |-> <<"1", "1", "-", "1", "0", "1", "1">>, probability |-> 50],
       [soc_code |-> <<"4", "1", "-", "2", "0", "3", "1">>, probability |-> 0] >>

SocialSecurity ==
    << [age_bracket |-> <<"6", "2", "-", "6", "4">>, mean_amount |-> 15000],
       [age_bracket |-> <<"6", "5", "-", "7", "4">>, mean_amount |-> 22000],
       [age_bracket |-> <<"7", "5", "+">>, mean_amount |-> 30000] >>

RetirementIncome ==
    << [age_bracket |-> <<"5", "5", "-", "6", "1">>, mean_amount |-> 20000],
       [age_bracket |-> <<"6", "2", "-", "7", "4">>, mean_amount |-> 35000],
       [age_bracket |-> <<"7", "5", "+">>, mean_amount |-> 90000] >>

InterestAndDividendIncome ==
    << [income_bracket |-> <<"$", "1", "-", "5", "0", "0">>, weight |-> 4],
       [income_bracket |-> <<"$", "5", "0", "0", "-", "2", "K">>, weight |-> 3],
       [income_bracket |-> <<"2", "0", "0", "0", "0", "0", "+">>, weight |-> 1] >>

OtherIncomeByEmploymentStatus ==
    << [employment_status |-> EMPLOYED, mean_amount |-> 20000],
       [employment_status |-> UNEMPLOYED, mean_amount |-> 3000] >>

PublicAssistanceIncome ==
    << [weighted_count |-> 3, mean_amount |-> 4000],
       [weighted_count |-> 1, mean_amount |-> 12000] >>

HomeownershipRow(age_bracket, income_bracket, tenure, weighted_count) ==
    [age_bracket |-> age_bracket, income_bracket |-> income_bracket,
     tenure |-> tenure, weighted_count |-> weighted_count]

HomeownershipRates ==
    << HomeownershipRow(<<"2", "5", "-", "3", "4">>, <<"<", "$", "2", "5", "K">>, "renter", 3),
       HomeownershipRow(<<"2", "5", "-", "3", "4">>, <<"<", "$", "2", "5", "K">>, "owner_with_mortgage", 1),
       HomeownershipRow(<<"4", "5", "-", "5", "4">>, <<"$", "5", "0", "-", "7", "5", "K">>, "owner_with_mortgage", 3),
       HomeownershipRow(<<"4", "5", "-", "5", "4">>, <<"$", "5", "0", "-", "7", "5", "K">>, "renter", 1),
       HomeownershipRow(<<"6", "5", "+">>, <<"$", "2", "5", "-", "5", "0", "K">>, "owner_free_clear", 1),
       HomeownershipRow(<<"6", "5", "+">>, <<"$", "1", "5", "0", "K", "+">>, "renter", 0) >>

PropertyTaxes ==
    << [income_bracket |-> <<"<", "$", "2", "5", "K">>, mean_amount |-> 1500],
       [income_bracket |-> <<"$", "2", "5", "-", "5", "0", "K">>, mean_amount |-> 2500],
       [income_bracket |-> <<"$", "2", "0", "0", "K", "+">>, mean_amount |-> 9000] >>

MortgageInterest ==
    << [income_bracket |-> <<"<", "$", "2", "5", "K">>, mean_amount |-> 5000],
       [income_bracket |-> <<"$", "2", "5", "-", "5", "0", "K">>, mean_amount |-> 9000],
       [income_bracket |-> <<"$", "2", "0", "0", "K", "+">>, mean_amount |-> 24000] >>

\* ------------------------------------------------------------------------
\* pipeline.py, Stage 1
\* ------------------------------------------------------------------------
\* Python truthiness of an optional string argument
Given(x) == x # None /\ x # ""

\* mutation of FilterComplexity: the complexity argument filters nothing
FilterComplexity_all(rows, complexity) == rows

\* rows whose pattern has the requested complexity (pipeline.py 118-122)
FilterComplexity(rows, complexity) ==
    SelectSeq(rows, LAMBDA row : Metadata(row.pattern).complexity = complexity)

\* Stage 1 without the forced pattern: the pattern is always drawn
select_pattern_unforced(patterns, complexity, pattern, r) ==
    IF ~Usable(patterns) THEN Raised(r)
    ELSE LET rows == IF Given(complexity)
                     THEN FilterComplexity(patterns.rows, complexity)
                     ELSE patterns.rows
         IN  IF Given(complexity) /\ Len(rows) = 0 THEN Raised(r)
             ELSE LET row == weighted_sample(rows, "weight", r)
                  IN  IF row.err THEN Raised(r)
                      ELSE Ok(row.v.pattern, row.rng)

\* the pattern name Stage 1 settles on, or the ValueError it raises
select_pattern(patterns, complexity, pattern, r) ==
    IF ~Usable(patterns) THEN Raised(r)
    ELSE IF Given(pattern)
    THEN IF \E i \in 1..Len(patterns.rows) : patterns.rows[i].pattern = pattern
         THEN Ok(pattern, r)
         ELSE Raised(r)
    ELSE LET rows == IF Given(complexity)
                     THEN FilterComplexity(patterns.rows, complexity)
                     ELSE patterns.rows
         IN  IF Given(complexity) /\ Len(rows) = 0 THEN Raised(r)
             ELSE LET row == weighted_sample(rows, "weight", r)
                  IN  IF row.err THEN Raised(r)
                      ELSE Ok(row.v.pattern, row.rng)

\* generate_stage1: the household created around the selected pattern
stage1_household(pattern_name, household_id, state, year) ==
    Household(household_id, state, year, pattern_name,
              Metadata(pattern_name).expected_adults.lo,
              Metadata(pattern_name).expected_children,
              Metadata(pattern_name).complexity)


\* ------------------------------------------------------------------------
\* adult_generator.py, Stage 2
\* ------------------------------------------------------------------------
\* position of the first occurrence of sub in s from i on, 0 when none
RECURSIVE FindSub(_, _, _)
FindSub(s, sub, i) ==
    IF i + Len(sub) - 1 > Len(s) THEN 0
    ELSE IF SubSeq(s, i, i + Len(sub) - 1) = sub THEN i
    ELSE FindSub(s, sub, i + 1)

\* sub in s of Python
HasSub(s, sub) == FindSub(s, sub, 1) > 0

\* s.replace(sub, repl) of Python
RECURSIVE ReplaceSub(_, _, _)
ReplaceSub(s, sub, repl) ==
    LET i == FindSub(s, sub, 1)
    IN  IF i = 0 THEN s
        ELSE Take(s, i - 1) \o repl
             \o ReplaceSub(Drop(s, i + Len(sub) - 1), sub, repl)

\* Series.unique(): the distinct values in order of first appearance
RECURSIVE Unique(_)
Unique(s) ==
    IF s = << >> THEN << >>
    ELSE << Head(s) >> \o Unique(SelectSeq(Tail(s), LAMBDA x : x # Head(s)))

\* groupby(key)[col].sum() for the given keys (tables list keys in sorted order)
GroupWeights(rows, key, keys, col) ==
    [i \in 1..Len(keys) |->
        SumSeq(Column(SelectSeq(rows, LAMBDA row : row[key] = keys[i]), col))]

\* np.random.choice(index, p = weights / weights.sum()); NaN probabilities raise
choose_weighted(options, weights, r) ==
    IF SumSeq(weights) = 0 THEN Raised(r)
    ELSE choice(options, weights, r)

determine_adult_count(metadata, r) ==
    IF metadata.expected_adults.range
    THEN randint(metadata.expected_adults.lo, metadata.expected_adults.hi + 1, r)
    ELSE Ok(metadata.expected_adults.lo, r)

\* num_adults - 1 copies of a relationship
Repeat(x, n) == [i \in 1..Max(n, 0) |-> x]

\* relationships of a multigenerational household before truncation
MultigenerationalRelationships(sub_pattern, num_adults) ==
    IF sub_pattern = "grandparent_with_grandchildren"
    THEN << HOUSEHOLDER >> \o (IF num_adults >= 2 THEN << SPOUSE >> ELSE << >>)
    ELSE IF sub_pattern \in {"adult_with_parent", "four_generations"}
    THEN << HOUSEHOLDER, PARENT >>
         \o (IF num_adults >= 3 THEN << SPOUSE >> ELSE << >>)
    ELSE << HOUSEHOLDER >>

\* every pattern handled as the 'other' pattern is
assign_relationships_other(pattern, num_adults, r) ==
    [v |-> << HOUSEHOLDER >> \o Repeat(OTHER_RELATIVE, num_adults - 1),
     rng |-> r, err |-> FALSE, sub |-> None]

\* relationships of the adults and the sub-pattern stored on the household
assign_relationships(pattern, num_adults, r) ==
    IF pattern \in {"single_adult", "single_parent"}
    THEN [v |-> << HOUSEHOLDER >>, rng |-> r, err |-> FALSE, sub |-> None]
    ELSE IF pattern \in {"married_couple_no_children",
                         "married_couple_with_children", "blended_family"}
    THEN [v |-> << HOUSEHOLDER, SPOUSE >>, rng |-> r, err |-> FALSE,
          sub |-> None]
    ELSE IF pattern = "unmarried_partners"
    THEN [v |-> << HOUSEHOLDER, UNMARRIED_PARTNER >>, rng |-> r,
          err |-> FALSE, sub |-> None]
    ELSE IF pattern = "multigenerational"
    THEN IF Usable(dist.multigenerational_patterns)
         THEN Then(weighted_sample(dist.multigenerational_patterns.rows,
                                   "weighted_count", r),
                   LAMBDA row :
                     [v |-> Take(MultigenerationalRelationships(
                                     row.v.pattern, num_adults), num_adults),
                      rng |-> row.rng, err |-> FALSE, sub |-> row.v.pattern])
         ELSE [v |-> Take(<< HOUSEHOLDER >> \o Repeat(PARENT, num_adults - 1),
                          num_adults),
               rng |-> r, err |-> FALSE, sub |-> "adult_with_parent"]
    ELSE [v |-> << HOUSEHOLDER >> \o Repeat(OTHER_RELATIVE, num_adults - 1),
          rng |-> r, err |-> FALSE, sub |-> None]

bracket_overlaps_range(bracket, min_val, max_val) ==
    IF Contains(bracket, "-")
    THEN LET parts == Split(bracket, "-")
             b_min == ParseInt(parts[1])
             b_max == ParseInt(Remove(parts[2], "+"))
         IN  IF b_min.ok /\ b_max.ok
             THEN b_min.val <= max_val /\ b_max.val >= min_val
             ELSE TRUE
    ELSE IF EndsWith(bracket, "+")
    THEN LET b_min == ParseInt(Take(bracket, Len(bracket) - 1))
         IN  IF b_min.ok THEN b_min.val <= max_val ELSE TRUE
    ELSE LET b_val == ParseInt(bracket)
         IN  IF b_val.ok THEN min_val <= b_val.val /\ b_val.val <= max_val
             ELSE TRUE

\* the age window of the householder of a pattern
HouseholderAgeRange(pattern) ==
    IF pattern = "single_parent" THEN << 20, 65 >>
    ELSE IF pattern \in {"married_couple_with_children", "blended_family"}
    THEN << 22, 55 >>
    ELSE IF pattern = "multigenerational" THEN << 30, 75 >>
    ELSE << 18, 85 >>

\* brackets of employment_by_age that overlap the householder's age window
ValidBrackets(pattern) ==
    SelectSeq(Unique(Column(dist.employment_by_age.rows, "age_bracket")),
              LAMBDA b : bracket_overlaps_range(b,
                             HouseholderAgeRange(pattern)[1],
                             HouseholderAgeRange(pattern)[2]))

sample_householder_age(pattern, r) ==
    With(ValidBrackets(pattern), LAMBDA valid_brackets :
      IF Usable(dist.employment_by_age) /\ Len(valid_brackets) > 0
      THEN Then(choose_weighted(valid_brackets,
                    GroupWeights(dist.employment_by_age.rows, "age_bracket",
                                 valid_brackets, "weight"), r),
             LAMBDA chosen :
               Then(sample_age_from_bracket(chosen.v, chosen.rng),
                 LAMBDA age :
                   Ok(Max(HouseholderAgeRange(pattern)[1],
                          Min(HouseholderAgeRange(pattern)[2], age.v)),
                      age.rng)))
      ELSE randint(HouseholderAgeRange(pattern)[1],
                   HouseholderAgeRange(pattern)[2] + 1, r))

\* mutation of sample_general_adult_age: working age counted from 16
sample_general_adult_age_from_16(r) == randint(16, 70, r)

sample_general_adult_age(r) ==
    IF Usable(dist.employment_by_age)
    THEN With(Unique(Column(dist.employment_by_age.rows, "age_bracket")),
           LAMBDA brackets :
             Then(choose_weighted(brackets,
                      GroupWeights(dist.employment_by_age.rows, "age_bracket",
                                   brackets, "weight"), r),
               LAMBDA chosen : sample_age_from_bracket(chosen.v, chosen.rng)))
    ELSE randint(18, 70, r)

\* the try block of _sample_from_gap_bracket: any exception gives a gap of 0
OrZero(x, r) == IF x.err THEN Ok(0, r) ELSE x

\* an age gap from a bracket like '-5_to_-1' or '6_or_more'; 0 on any error
sample_from_gap_bracket(gap_bracket, r) ==
    IF gap_bracket = <<"0">> THEN Ok(0, r)
    ELSE IF HasSub(gap_bracket, <<"_", "o", "r", "_", "l", "e", "s", "s">>)
    THEN With(ParseInt(Split(gap_bracket, "_")[1]), LAMBDA max_gap :
           IF max_gap.ok THEN randint(max_gap.val - 5, max_gap.val + 1, r)
           ELSE Ok(0, r))
    ELSE IF HasSub(gap_bracket, <<"_", "o", "r", "_", "m", "o", "r", "e">>)
    THEN With(ParseInt(Split(gap_bracket, "_")[1]), LAMBDA min_gap :
           IF min_gap.ok
           THEN With(exponential(3, r),
                     LAMBDA e : Ok(min_gap.val + e.v, e.rng))
           ELSE Ok(0, r))
    ELSE IF HasSub(gap_bracket, <<"_", "t", "o", "_">>)
    THEN With(Split(ReplaceSub(gap_bracket, <<"_", "t", "o", "_">>,
                               << "," >>), ","),
           LAMBDA parts :
             IF ParseInt(parts[1]).ok /\ ParseInt(parts[2]).ok
             THEN OrZero(randint(ParseInt(parts[1]).val,
                                 ParseInt(parts[2]).val + 1, r), r)
             ELSE Ok(0, r))
    ELSE With(ParseInt(gap_bracket), LAMBDA gap :
           IF gap.ok THEN Ok(gap.val, r) ELSE Ok(0, r))

\* age of the companion given the gap drawn: max(18, min(85, age - gap))
CompanionAge(householder, gap) ==
    Ok(Max(18, Min(85, householder[1].age - gap.v)), gap.rng)

\* spouse (spread 5) and unmarried partner (spread 8) share this shape
sample_companion_age(householder, spread, r) ==
    IF householder = << >> THEN sample_general_adult_age(r)
    ELSE IF Usable(dist.spousal_age_gaps)
    THEN Then(weighted_sample(dist.spousal_age_gaps.rows, "weight", r),
           LAMBDA gap_row :
             With(sample_from_gap_bracket(gap_row.v.age_gap_bracket,
                                          gap_row.rng),
                  LAMBDA gap : CompanionAge(householder, gap)))
    ELSE With(randint(0 - spread, spread + 1, r),
              LAMBDA gap : CompanionAge(householder, gap))

sample_spouse_age(householder, r) == sample_companion_age(householder, 5, r)

sample_partner_age(householder, r) == sample_companion_age(householder, 8, r)

\* a parent as little as ten years older than the householder
sample_parent_age_from_10(householder, r) ==
    IF householder = << >> THEN randint(55, 85, r)
    ELSE With(randint(10, 40, r), LAMBDA age_diff :
           Ok(Min(95, householder[1].age + age_diff.v), age_diff.rng))

sample_parent_age(householder, r) ==
    IF householder = << >> THEN randint(55, 85, r)
    ELSE With(randint(18, 40, r), LAMBDA age_diff :
           Ok(Min(95, householder[1].age + age_diff.v), age_diff.rng))

sample_age(relationship, pattern, existing_adults, r) ==
    IF relationship = HOUSEHOLDER THEN sample_householder_age(pattern, r)
    ELSE IF relationship = SPOUSE
    THEN sample_spouse_age(FirstWith(existing_adults, HOUSEHOLDER), r)
    ELSE IF relationship = UNMARRIED_PARTNER
    THEN sample_partner_age(FirstWith(existing_adults, HOUSEHOLDER), r)
    ELSE IF relationship = PARENT
    THEN sample_parent_age(FirstWith(existing_adults, HOUSEHOLDER), r)
    ELSE sample_general_adult_age(r)

\* Person.sex is a string; 'M' and 'F' are what the fallbacks produce
SexM == << "M" >>

SexF == << "F" >>

CouplePatterns ==
    {"married_couple_no_children", "married_couple_with_children",
     "blended_family", "unmarried_partners"}

\* 'married' if 'married' in pattern else 'unmarried'
CoupleTypeOf(pattern) ==
    IF HasSub(Spell(pattern), <<"m", "a", "r", "r", "i", "e", "d">>)
    THEN "married" ELSE "unmarried"

\* part of the sex pattern ('M_F') drawn from the filtered couple patterns
SexFromPattern(filtered, part, r) ==
    Then(weighted_sample(filtered, "weight", r), LAMBDA pattern_row :
      Ok(Split(pattern_row.v.sex_pattern, "_")[part], pattern_row.rng))

sample_householder_sex(pattern, r) ==
    With(SelectSeq(dist.couple_sex_patterns.rows,
             LAMBDA row : row.couple_type = CoupleTypeOf(pattern)),
      LAMBDA filtered :
        IF pattern \in CouplePatterns /\ Usable(dist.couple_sex_patterns)
           /\ Len(filtered) > 0
        THEN SexFromPattern(filtered, 1, r)
        ELSE choice(<< SexM, SexF >>, << 1, 1 >>, r))

sample_companion_sex(relationship, householder, r) ==
    IF householder = << >> THEN choice(<< SexM, SexF >>, << 1, 1 >>, r)
    ELSE With(SelectSeq(dist.couple_sex_patterns.rows,
                  LAMBDA row :
                    /\ row.couple_type = (IF relationship = SPOUSE
                                          THEN "married" ELSE "unmarried")
                    /\ Take(row.sex_pattern, Len(householder[1].sex))
                         = householder[1].sex),
           LAMBDA filtered :
             IF dist.couple_sex_patterns.present /\ Len(filtered) > 0
             THEN SexFromPattern(filtered, 2, r)
             ELSE Ok(IF householder[1].sex = SexM THEN SexF ELSE SexM, r))

sample_sex(relationship, pattern, existing_adults, r) ==
    IF relationship = HOUSEHOLDER THEN sample_householder_sex(pattern, r)
    ELSE IF relationship \in {SPOUSE, UNMARRIED_PARTNER}
    THEN sample_companion_sex(relationship,
                              FirstWith(existing_adults, HOUSEHOLDER), r)
    ELSE choice(<< SexM, SexF >>, << 1, 1 >>, r)

\* first bracket of the list containing the age, as a sequence of at most one
get_matching_age_bracket(age, brackets) ==
    Take(SelectSeq(brackets, LAMBDA b : match_age_bracket(age, b)), 1)

\* rows of a table in the bracket that contains the age (none without match)
RowsForAge(table, age) ==
    With(get_matching_age_bracket(age,
             Unique(Column(table.rows, "age_bracket"))),
      LAMBDA age_bracket :
        IF Usable(table) /\ age_bracket # << >> /\ age_bracket[1] # << >>
        THEN SelectSeq(table.rows,
                       LAMBDA row : row.age_bracket = age_bracket[1])
        ELSE << >>)

\* weighted draw of a column from the rows found, else the fallback
SampleField(rows, weight_col, field, r) ==
    Then(weighted_sample(rows, weight_col, r),
         LAMBDA row : Ok(row.v[field], row.rng))

\* the sub-pattern drawn anew from the table, whatever Stage 2 stored
SubPatternOf_resampled(household, r) ==
    IF Usable(dist.multigenerational_patterns)
    THEN SampleField(dist.multigenerational_patterns.rows, "weighted_count",
                     "pattern", r)
    ELSE Ok("adult_with_parent", r)

sample_race(age, r) ==
    With(RowsForAge(dist.race_by_age, age), LAMBDA rows :
      IF Len(rows) > 0 THEN SampleField(rows, "weight", "race", r)
      ELSE IF Usable(dist.race_distribution)
      THEN SampleField(dist.race_distribution.rows, "weight", "race", r)
      ELSE Ok("white", r))

sample_hispanic_origin(age, r) ==
    With(RowsForAge(dist.hispanic_origin_by_age, age), LAMBDA rows :
      IF Len(rows) > 0
      THEN Then(SampleField(rows, "weight", "hispanic_origin", r),
                LAMBDA hisp : Ok(hisp.v = "hispanic", hisp.rng))
      ELSE random_lt(18, r))

sample_employment_status(age, sex, r) ==
    With(SelectSeq(RowsForAge(dist.employment_by_age, age),
             LAMBDA row : row.sex = (IF sex = SexM THEN "male" ELSE "female")),
      LAMBDA rows :
        IF Len(rows) > 0
        THEN SampleField(rows, "weight", "employment_status", r)
        ELSE IF age >= 65
        THEN choice(<< EMPLOYED, NOT_IN_LABOR_FORCE >>, << 25, 75 >>, r)
        ELSE IF age < 22
        THEN choice(<< EMPLOYED, NOT_IN_LABOR_FORCE, UNEMPLOYED >>,
                    << 50, 40, 10 >>, r)
        ELSE choice(<< EMPLOYED, NOT_IN_LABOR_FORCE, UNEMPLOYED >>,
                    << 75, 20, 5 >>, r))

sample_education(age, r) ==
    With(RowsForAge(dist.education_by_age, age), LAMBDA rows :
      IF Len(rows) > 0
      THEN SampleField(rows, "weighted_count", "education_level", r)
      ELSE IF age < 22
      THEN choice(<< "high_school", "some_college" >>, << 60, 40 >>, r)
      ELSE choice(<< "high_school", "some_college", "bachelors",
                     "associates", "masters" >>,
                  << 30, 25, 25, 10, 10 >>, r))

sample_disability(age, r) ==
    With(RowsForAge(dist.disability_by_age, age), LAMBDA rows :
      IF Len(rows) > 0 THEN random_lt(rows[1].disability_percentage, r)
      ELSE IF age < 35 THEN random_lt(5, r)
      ELSE IF age < 55 THEN random_lt(10, r)
      ELSE IF age < 65 THEN random_lt(20, r)
      ELSE random_lt(35, r))

\* edu_mapping.get(education, 'hs_graduate')
EduMapping(education) ==
    CASE education \in {"less_than_hs", "no_hs_diploma"} -> "no_hs_diploma"
      [] education \in {"some_college", "associates", "bachelors", "masters"}
           -> education
      [] education \in {"professional", "professional_doctorate", "doctorate"}
           -> "professional_doctorate"
      [] OTHER -> "hs_graduate"

\* code.replace('-', '')[:2]
SocMajor(code) == Take(Remove(code, "-"), 2)

Occupation(row) == [code |-> row.soc_code, title |-> row.occupation_title]

NoOccupationPair == [code |-> NoOccupation, title |-> None]

\* an occupation drawn by employment count; (None, None) on any exception
OccupationFrom(rows, r) ==
    With(weighted_sample(rows, "employment_count", r), LAMBDA occ :
      IF occ.err THEN Ok(NoOccupationPair, r)
      ELSE Ok(Occupation(occ.v), occ.rng))

\* (soc_code, occupation_title), or (None, None); any exception gives None
sample_occupation(education, r) ==
    IF ~Usable(dist.bls_occupation_wages) THEN Ok(NoOccupationPair, r)
    ELSE With(SelectSeq(dist.education_occupation_probabilities.rows,
                  LAMBDA row : row.education_level = EduMapping(education)),
           LAMBDA filtered :
             IF Usable(dist.education_occupation_probabilities)
                /\ Len(filtered) > 0
             THEN With(weighted_sample(filtered, "weighted_count", r),
                    LAMBDA occ_row :
                      IF occ_row.err THEN Ok(NoOccupationPair, r)
                      ELSE With(SelectSeq(dist.bls_occupation_wages.rows,
                                    LAMBDA row : SocMajor(row.soc_code)
                                                 = occ_row.v.soc_major_group),
                             LAMBDA bls_filtered :
                               OccupationFrom(
                                   IF Len(bls_filtered) > 0 THEN bls_filtered
                                   ELSE dist.bls_occupation_wages.rows,
                                   occ_row.rng)))
             ELSE OccupationFrom(dist.bls_occupation_wages.rows, r))

generate_single_adult(relationship, pattern, existing_adults, person_id, r) ==
    Then(sample_age(relationship, pattern, existing_adults, r), LAMBDA age :
    Then(sample_sex(relationship, pattern, existing_adults, age.rng),
      LAMBDA sex :
    Then(sample_race(age.v, sex.rng), LAMBDA race :
    Then(sample_hispanic_origin(age.v, race.rng), LAMBDA hispanic :
    Then(sample_employment_status(age.v, sex.v, hispanic.rng),
      LAMBDA employment :
    Then(sample_education(age.v, employment.rng), LAMBDA education :
    With(sample_disability(age.v, education.rng), LAMBDA has_disability :
    With(IF employment.v = EMPLOYED
         THEN sample_occupation(education.v, has_disability.rng)
         ELSE Ok(NoOccupationPair, has_disability.rng),
      LAMBDA occupation :
        Ok(Person(person_id, relationship, age.v, sex.v, race.v, hispanic.v,
                  employment.v, education.v, occupation.v.code,
                  occupation.v.title, has_disability.v),
           occupation.rng)))))))))

\* the loop of generate_adults over the relationships, in order
RECURSIVE generate_each_adult(_, _, _, _, _)
generate_each_adult(relationships, pattern, adults, person_id, r) ==
    IF relationships = << >> THEN Ok(adults, r)
    ELSE Then(generate_single_adult(Head(relationships), pattern, adults,
                                    person_id, r),
           LAMBDA adult :
             generate_each_adult(Tail(relationships), pattern,
                                 Append(adults, adult.v), person_id + 1,
                                 adult.rng))

\* generate_adults once the relationships are assigned
AdultsOf(relationships, pattern, person_id) ==
    With(generate_each_adult(relationships.v, pattern, << >>, person_id,
                             relationships.rng),
      LAMBDA adults :
        [v |-> adults.v, rng |-> adults.rng, err |-> adults.err,
         sub |-> relationships.sub])

\* the adults of the household, and the sub-pattern stored on it
generate_adults(pattern, person_id, r) ==
    With(determine_adult_count(Metadata(pattern), r), LAMBDA num_adults :
      With(assign_relationships(pattern, num_adults.v, num_adults.rng),
        LAMBDA relationships :
          IF relationships.err
          THEN [v |-> << >>, rng |-> relationships.rng, err |-> TRUE,
                sub |-> None]
          ELSE AdultsOf(relationships, pattern, person_id)))

\* ------------------------------------------------------------------------
\* child_generator.py, Stage 3
\* ------------------------------------------------------------------------
PATTERNS_WITH_CHILDREN ==
    {"married_couple_with_children", "single_parent", "blended_family",
     "multigenerational", "unmarried_partners"}

PATTERNS_REQUIRING_CHILDREN ==
    {"married_couple_with_children", "single_parent", "blended_family"}

TEEN_OCCUPATIONS ==
    << [code |-> <<"3", "5", "-", "3", "0", "2", "3">>, title |-> "Fast Food and Counter Workers"],
       [code |-> <<"4", "1", "-", "2", "0", "1", "1">>, title |-> "Cashiers"],
       [code |-> <<"3", "5", "-", "3", "0", "3", "1">>, title |-> "Waiters and Waitresses"],
       [code |-> <<"4", "1", "-", "2", "0", "3", "1">>, title |-> "Retail Salespersons"],
       [code |-> <<"3", "7", "-", "2", "0", "1", "1">>, title |-> "Janitors and Cleaners"],
       [code |-> <<"5", "3", "-", "7", "0", "6", "5">>, title |-> "Stockers and Order Fillers"] >>

\* a child's employment where a teenager who does not work keeps an occupation
determine_child_employment_keeps_occupation(age, r) ==
    IF age < 14
    THEN Ok([status |-> NOT_IN_LABOR_FORCE, occupation |-> NoOccupationPair],
            r)
    ELSE With(random_lt(IF age < 16 THEN 10 ELSE 35, r), LAMBDA works :
           With(randint(0, Len(TEEN_OCCUPATIONS), works.rng), LAMBDA occ :
             Ok([status |-> IF works.v THEN EMPLOYED ELSE NOT_IN_LABOR_FORCE,
                 occupation |-> TEEN_OCCUPATIONS[occ.v + 1]], occ.rng)))

\* mutation of INCOME_CAPS: caps no amount reaches
INCOME_CAPS_none ==
    [wage |-> 1000000000, self_employment |-> 1000000000,
     unemployment |-> 1000000000, social_security |-> 1000000000,
     retirement |-> 1000000000, interest |-> 1000000000, dividend |-> 1000000000,
     other |-> 1000000000, public_assistance |-> 1000000000]

\* _age_in_bracket of the child, income and expense generators
age_in_bracket(age, bracket) ==
    IF Contains(bracket, "-")
    THEN LET parts == Split(bracket, "-")
             min_age == ParseInt(parts[1])
             max_age == ParseInt(Remove(parts[2], "+"))
         IN  min_age.ok /\ max_age.ok /\ min_age.val <= age /\ age <= max_age.val
    ELSE IF EndsWith(bracket, "+")
    THEN LET min_age == ParseInt(Take(bracket, Len(bracket) - 1))
         IN  min_age.ok /\ age >= min_age.val
    ELSE LET val == ParseInt(bracket) IN val.ok /\ age = val.val

get_parent_age_bracket(age) ==
    With(SelectSeq(Unique(Column(dist.children_by_parent_age.rows,
                                 "parent_age_bracket")),
                   LAMBDA b : age_in_bracket(age, b)),
      LAMBDA matching :
        IF Usable(dist.children_by_parent_age) /\ Len(matching) > 0
        THEN matching[1]
        ELSE IF age < 25 THEN <<"1", "8", "-", "2", "4">>
        ELSE IF age < 35 THEN <<"2", "5", "-", "3", "4">>
        ELSE IF age < 45 THEN <<"3", "5", "-", "4", "4">>
        ELSE IF age < 55 THEN <<"4", "5", "-", "5", "4">>
        ELSE <<"5", "5", "+">>)

\* min(adults, key = age): the first adult of the least age
RECURSIVE Youngest(_)
Youngest(adults) ==
    IF Len(adults) = 1 THEN adults[1]
    ELSE LET rest == Youngest(Tail(adults))
         IN  IF Head(adults).age <= rest.age THEN Head(adults) ELSE rest

\* max(adults, key = age): the first adult of the greatest age
RECURSIVE Oldest(_)
Oldest(adults) ==
    IF Len(adults) = 1 THEN adults[1]
    ELSE LET rest == Oldest(Tail(adults))
         IN  IF Head(adults).age >= rest.age THEN Head(adults) ELSE rest

\* mutation of MinChildren: no pattern requires a child
MinChildren_none(household) == 0

\* the least number of children the household must have
MinChildren(household) ==
    IF household.pattern \in PATTERNS_REQUIRING_CHILDREN
       \/ (household.pattern = "multigenerational"
           /\ household.multigenerational_subpattern
                \in {"grandparent_with_grandchildren", "four_generations"})
    THEN Max(1, Metadata(household.pattern).expected_children[1])
    ELSE Metadata(household.pattern).expected_children[1]

\* the number drawn from children_by_parent_age, or from the expected range
SampleChildCount(household, adults, r) ==
    With(SelectSeq(dist.children_by_parent_age.rows,
             LAMBDA row : row.parent_age_bracket
                          = get_parent_age_bracket(Youngest(adults).age)),
      LAMBDA filtered :
        IF Usable(dist.children_by_parent_age) /\ Len(filtered) > 0
        THEN SampleField(filtered, "weight", "num_children", r)
        ELSE randint(Metadata(household.pattern).expected_children[1],
                     Metadata(household.pattern).expected_children[2] + 1, r))

\* the count as the table or the draw gives it, not clamped to the range
determine_child_count_unclamped(household, adults, r) ==
    SampleChildCount(household, adults, r)

determine_child_count(household, adults, r) ==
    Then(SampleChildCount(household, adults, r), LAMBDA sampled :
      Ok(Max(MinChildren(household),
             Min(Metadata(household.pattern).expected_children[2],
                 sampled.v)),
         sampled.rng))

\* the half-and-half list of two relationship types, shuffled
MixedRelationships(first, second, num_children, r) ==
    shuffle(Repeat(first, num_children - Max(1, num_children \div 2))
            \o Repeat(second, Max(1, num_children \div 2)), r)

\* every child a biological child, whatever the pattern
assign_child_relationships_biological(pattern, num_children, household, r) ==
    Ok(Repeat(BIOLOGICAL_CHILD, num_children), r)

assign_blended_family_relationships(num_children, r) ==
    IF Usable(dist.stepchild_patterns)
    THEN Then(weighted_sample(dist.stepchild_patterns.rows,
                              "weighted_count", r),
           LAMBDA pattern_row :
             IF HasSub(pattern_row.v.pattern,
                       <<"s", "t", "e", "p", "_", "o", "n", "l", "y">>)
             THEN Ok(Repeat(STEPCHILD, num_children), pattern_row.rng)
             ELSE IF HasSub(pattern_row.v.pattern,
                            <<"b", "i", "o", "_", "o", "n", "l", "y">>)
             THEN Ok(Repeat(BIOLOGICAL_CHILD, num_children), pattern_row.rng)
             ELSE MixedRelationships(BIOLOGICAL_CHILD, STEPCHILD, num_children,
                                     pattern_row.rng))
    ELSE MixedRelationships(BIOLOGICAL_CHILD, STEPCHILD, num_children, r)

\* the sub-pattern stored by Stage 2, else resampled, else 'adult_with_parent'
SubPatternOf(household, r) ==
    IF Given(household.multigenerational_subpattern)
    THEN Ok(household.multigenerational_subpattern, r)
    ELSE IF Usable(dist.multigenerational_patterns)
    THEN SampleField(dist.multigenerational_patterns.rows, "weighted_count",
                     "pattern", r)
    ELSE Ok("adult_with_parent", r)

assign_multigenerational_child_relationships(num_children, household, r) ==
    Then(SubPatternOf(household, r), LAMBDA sub_pattern :
      IF sub_pattern.v = "grandparent_with_grandchildren"
      THEN Ok(Repeat(GRANDCHILD, num_children), sub_pattern.rng)
      ELSE IF sub_pattern.v = "four_generations"
      THEN IF num_children >= 2
           THEN MixedRelationships(BIOLOGICAL_CHILD, GRANDCHILD,
                                   num_children, sub_pattern.rng)
           ELSE With(choice(<< BIOLOGICAL_CHILD, GRANDCHILD >>, << 1, 1 >>,
                            sub_pattern.rng),
                     LAMBDA one : Ok(<< one.v >>, one.rng))
      ELSE Ok(Repeat(BIOLOGICAL_CHILD, num_children), sub_pattern.rng))

assign_child_relationships(pattern, num_children, household, r) ==
    IF num_children = 0 THEN Ok(<< >>, r)
    ELSE IF pattern = "blended_family"
    THEN assign_blended_family_relationships(num_children, r)
    ELSE IF pattern = "multigenerational"
    THEN assign_multigenerational_child_relationships(num_children,
                                                      household, r)
    ELSE Ok(Repeat(BIOLOGICAL_CHILD, num_children), r)

\* the except clause of _sample_age_from_child_group: draw from 0..17
OrAnyChildAge(x, r) == IF x.err THEN randint(0, 18, r) ELSE x

\* an age within a child age group like '0-5'; any parse error draws 0..17
sample_age_from_child_group(age_group, r) ==
    IF Contains(age_group, "-")
    THEN With(Split(age_group, "-"), LAMBDA parts :
           IF ParseInt(parts[1]).ok /\ ParseInt(parts[2]).ok
           THEN OrAnyChildAge(randint(ParseInt(parts[1]).val,
                                      ParseInt(parts[2]).val + 1, r), r)
           ELSE randint(0, 18, r))
    ELSE IF EndsWith(age_group, "+")
    THEN With(ParseInt(Take(age_group, Len(age_group) - 1)), LAMBDA min_age :
           IF min_age.ok
           THEN With(exponential(2, r),
                     LAMBDA e : Ok(min_age.val + e.v, e.rng))
           ELSE randint(0, 18, r))
    ELSE With(ParseInt(age_group), LAMBDA age :
           IF age.ok THEN Ok(age.val, r) ELSE randint(0, 18, r))

\* the age drawn from the rows of the parent's bracket, clamped to the range
SampleClampedChildAge(filtered, max_child_age, r) ==
    Then(weighted_sample(filtered, "weight", r), LAMBDA row :
      With(sample_age_from_child_group(row.v.child_age_group, row.rng),
        LAMBDA age : Ok(Max(0, Min(max_child_age, age.v)), age.rng)))

sample_child_age(reference_adult, min_age_gap, r) ==
    With(Min(17, reference_adult.age - min_age_gap), LAMBDA max_child_age :
      IF max_child_age < 0 THEN Ok(0, r)
      ELSE With(SelectSeq(dist.child_age_distributions.rows,
                    LAMBDA row : row.parent_age_bracket
                        = get_parent_age_bracket(reference_adult.age)),
             LAMBDA filtered :
               IF Usable(dist.child_age_distributions) /\ Len(filtered) > 0
               THEN SampleClampedChildAge(filtered, max_child_age, r)
               ELSE randint(0, max_child_age + 1, r)))

\* races of the adults that have one, in order
ParentRaces(adults) == Column(SelectSeq(adults, LAMBDA a : a.race # ""), "race")

\* a child of parents of different races: mixed 70% of the time
MixedRace(parent_races, r) ==
    With(random_lt(70, r), LAMBDA mixed :
      IF mixed.v THEN Ok("two_or_more", mixed.rng)
      ELSE With(randint(0, Len(parent_races), mixed.rng),
                LAMBDA one : Ok(parent_races[one.v + 1], one.rng)))

determine_child_race(adults, r) ==
    With(ParentRaces(adults), LAMBDA parent_races :
      IF Len(parent_races) = 0 THEN Ok("two_or_more", r)
      ELSE IF Len(Unique(parent_races)) = 1 THEN Ok(parent_races[1], r)
      ELSE MixedRace(parent_races, r))

determine_child_hispanic(adults, r) ==
    IF \E i \in 1..Len(adults) : adults[i].hispanic_origin
    THEN random_lt(90, r)
    ELSE Ok(FALSE, r)

determine_child_education(age) ==
    IF age < 5 THEN "none"
    ELSE IF age < 6 THEN "preschool"
    ELSE IF age < 14 THEN "elementary_middle"
    ELSE "high_school"

\* (employment_status, occupation_code, occupation_title) of a child
determine_child_employment(age, r) ==
    IF age < 14
    THEN Ok([status |-> NOT_IN_LABOR_FORCE, occupation |-> NoOccupationPair],
            r)
    ELSE With(random_lt(IF age < 16 THEN 10 ELSE 35, r), LAMBDA works :
           IF works.v
           THEN With(randint(0, Len(TEEN_OCCUPATIONS), works.rng),
                  LAMBDA occ :
                    Ok([status |-> EMPLOYED,
                        occupation |-> TEEN_OCCUPATIONS[occ.v + 1]], occ.rng))
           ELSE Ok([status |-> NOT_IN_LABOR_FORCE,
                    occupation |-> NoOccupationPair], works.rng))

\* the adult a child's age is measured against
ReferenceAdult(adults, relationship) ==
    IF relationship = GRANDCHILD THEN Oldest(adults) ELSE Youngest(adults)

\* mutation of MinAgeGap: no gap is kept between the adult and the child
MinAgeGap_zero(relationship) == 0

\* the least age gap between the reference adult and the child
MinAgeGap(relationship) == IF relationship = GRANDCHILD THEN 28 ELSE 14

generate_single_child(adults, relationship, person_id, r) ==
    Then(sample_child_age(ReferenceAdult(adults, relationship),
                          MinAgeGap(relationship), r), LAMBDA age :
    With(choice(<< SexM, SexF >>, << 1, 1 >>, age.rng), LAMBDA sex :
    With(determine_child_race(adults, sex.rng), LAMBDA race :
    With(determine_child_hispanic(adults, race.rng), LAMBDA hispanic :
    With(determine_child_employment(age.v, hispanic.rng), LAMBDA employment :
      Ok(Person(person_id, relationship, age.v, sex.v, race.v, hispanic.v,
                employment.v.status, determine_child_education(age.v),
                employment.v.occupation.code, employment.v.occupation.title,
                FALSE),
         employment.rng))))))

\* the loop of generate_children over the relationships, in order
RECURSIVE generate_each_child(_, _, _, _, _)
generate_each_child(relationships, adults, children, person_id, r) ==
    IF relationships = << >> THEN Ok(children, r)
    ELSE Then(generate_single_child(adults, Head(relationships), person_id, r),
           LAMBDA child :
             generate_each_child(Tail(relationships), adults,
                                 Append(children, child.v), person_id + 1,
                                 child.rng))

generate_children(household, person_id, r) ==
    IF household.pattern \notin PATTERNS_WITH_CHILDREN THEN Ok(<< >>, r)
    ELSE IF Len(get_adults(household)) = 0 THEN Ok(<< >>, r)
    ELSE Then(determine_child_count(household, get_adults(household), r),
           LAMBDA num_children :
             IF num_children.v = 0 THEN Ok(<< >>, num_children.rng)
             ELSE Then(assign_child_relationships(household.pattern,
                           num_children.v, household, num_children.rng),
                    LAMBDA relationships :
                      generate_each_child(relationships.v,
                          get_adults(household), << >>, person_id,
                          relationships.rng)))

\* ------------------------------------------------------------------------
\* income_generator.py, Stage 4 (probabilities and multipliers in percent)
\* ------------------------------------------------------------------------
INCOME_CAPS ==
    [wage |-> 500000, self_employment |-> 250000, unemployment |-> 30000,
     social_security |-> 50000, retirement |-> 200000, interest |-> 100000,
     dividend |-> 100000, other |-> 50000, public_assistance |-> 15000]

DEFAULT_AGE_MULTIPLIERS ==
    [a18_24 |-> 60, a25_34 |-> 85, a35_44 |-> 100, a45_54 |-> 110,
     a55_64 |-> 105, a65 |-> 90]

DEFAULT_SE_PROBABILITY ==
    << [group |-> <<"1", "1">>, probability |-> 15],
       [group |-> <<"1", "3">>, probability |-> 10],
       [group |-> <<"1", "5">>, probability |-> 12],
       [group |-> <<"1", "7">>, probability |-> 8],
       [group |-> <<"1", "9">>, probability |-> 5],
       [group |-> <<"2", "1">>, probability |-> 8],
       [group |-> <<"2", "3">>, probability |-> 25],
       [group |-> <<"2", "5">>, probability |-> 5],
       [group |-> <<"2", "7">>, probability |-> 30],
       [group |-> <<"2", "9">>, probability |-> 15],
       [group |-> <<"3", "1">>, probability |-> 5],
       [group |-> <<"3", "3">>, probability |-> 2],
       [group |-> <<"3", "5">>, probability |-> 8],
       [group |-> <<"3", "7">>, probability |-> 15],
       [group |-> <<"3", "9">>, probability |-> 20],
       [group |-> <<"4", "1">>, probability |-> 10],
       [group |-> <<"4", "3">>, probability |-> 3],
       [group |-> <<"4", "5">>, probability |-> 25],
       [group |-> <<"4", "7">>, probability |-> 25],
       [group |-> <<"4", "9">>, probability |-> 15],
       [group |-> <<"5", "1">>, probability |-> 5],
       [group |-> <<"5", "3">>, probability |-> 12] >>

\* first row of the table whose bracket contains the age, at most one
FirstRowForAge(table, age) ==
    Take(SelectSeq(table.rows,
                   LAMBDA row : age_in_bracket(age, row.age_bracket)), 1)

get_age_multiplier(age) ==
    With(FirstRowForAge(dist.age_income_adjustments, age), LAMBDA found :
      IF Usable(dist.age_income_adjustments) /\ found # << >>
      THEN found[1].multiplier
      ELSE IF age < 25 THEN DEFAULT_AGE_MULTIPLIERS.a18_24
      ELSE IF age < 35 THEN DEFAULT_AGE_MULTIPLIERS.a25_34
      ELSE IF age < 45 THEN DEFAULT_AGE_MULTIPLIERS.a35_44
      ELSE IF age < 55 THEN DEFAULT_AGE_MULTIPLIERS.a45_54
      ELSE IF age < 65 THEN DEFAULT_AGE_MULTIPLIERS.a55_64
      ELSE DEFAULT_AGE_MULTIPLIERS.a65)

\* the wage column named by the percentile drawn
WageColumn(percentile) ==
    IF percentile = "median" THEN "median_annual_wage"
    ELSE IF percentile = "p10" THEN "p10_annual_wage"
    ELSE IF percentile = "p25" THEN "p25_annual_wage"
    ELSE IF percentile = "p75" THEN "p75_annual_wage"
    ELSE "p90_annual_wage"

\* rows of the wage table for the occupation, else for its major group
OccupationWageRows(occupation_code) ==
    With(SelectSeq(dist.bls_occupation_wages.rows,
                   LAMBDA row : row.soc_code = occupation_code),
      LAMBDA exact :
        IF Len(exact) > 0 THEN exact
        ELSE SelectSeq(dist.bls_occupation_wages.rows,
                 LAMBDA row : SocMajor(row.soc_code)
                              = SocMajor(occupation_code)))

\* a wage listed as missing or not positive is replaced by 45000
ListedWage(listed) == IF listed <= 0 THEN 45000 ELSE listed

\* the wage of the percentile drawn for the occupation, 45000 without rows
BaseWage(occ_row, r) ==
    IF Len(occ_row) = 0 THEN Ok(45000, r)
    ELSE With(choice(<< "p10", "p25", "median", "p75", "p90" >>,
                     << 10, 20, 40, 20, 10 >>, r),
           LAMBDA percentile :
             Ok(ListedWage(occ_row[1][WageColumn(percentile.v)]),
                percentile.rng))

\* share of the wage kept by a worker of 65 or more: one roll against .55, .90
SeniorHours(age, r) ==
    IF age < 65 THEN Ok(100, r)
    ELSE With(RngStep(r), LAMBDA roll :
           Ok(IF roll % 100 < 55 THEN 50
              ELSE IF roll % 100 < 90 THEN 100 ELSE 110, roll))

calculate_wage_income(person, r) ==
    IF ~Usable(dist.bls_occupation_wages)
       \/ person.occupation_code = NoOccupation
    THEN Ok(Min((45000 * get_age_multiplier(person.age)) \div 100,
                INCOME_CAPS.wage), r)
    ELSE With(BaseWage(OccupationWageRows(person.occupation_code), r),
           LAMBDA base :
             With(SeniorHours(person.age, base.rng), LAMBDA hours :
               Ok(Min((((base.v * get_age_multiplier(person.age)) \div 100)
                       * hours.v) \div 100, INCOME_CAPS.wage),
                  hours.rng)))

get_default_se_probability(occupation_code) ==
    With(SelectSeq(DEFAULT_SE_PROBABILITY,
                   LAMBDA e : e.group = SocMajor(occupation_code)),
      LAMBDA listed :
        IF occupation_code = NoOccupation \/ listed = << >> THEN 10
        ELSE listed[1].probability)

\* probability of self-employment of the occupation, in percent
SelfEmploymentProbability(occupation_code) ==
    With(SelectSeq(dist.occupation_self_employment_probability.rows,
                   LAMBDA row : row.soc_code = occupation_code),
      LAMBDA occ_row :
        IF Usable(dist.occupation_self_employment_probability)
           /\ occupation_code # NoOccupation /\ Len(occ_row) > 0
        THEN occ_row[1].probability
        ELSE get_default_se_probability(occupation_code))

calculate_self_employment_income(person, r) ==
    With(random_lt(SelfEmploymentProbability(person.occupation_code), r),
      LAMBDA roll :
        IF ~roll.v THEN Ok(0, roll.rng)
        ELSE IF person.wage_income > 0
        THEN With(uniform(20, 80, roll.rng), LAMBDA se_ratio :
               Ok(Min((person.wage_income * se_ratio.v) \div 100,
                      INCOME_CAPS.self_employment), se_ratio.rng))
        ELSE With(uniform(20000, 100000, roll.rng), LAMBDA primary :
               Ok(Min(primary.v, INCOME_CAPS.self_employment), primary.rng)))

calculate_unemployment_income(r) ==
    With(random_lt(40, r), LAMBDA roll :
      IF ~roll.v THEN Ok(0, roll.rng)
      ELSE With(uniform(250, 650, roll.rng), LAMBDA weekly_benefit :
             With(randint(10, 27, weekly_benefit.rng),
               LAMBDA weeks_collected :
                 Ok(Min(weekly_benefit.v * weeks_collected.v,
                        INCOME_CAPS.unemployment), weeks_collected.rng))))

\* early disability benefits are 70% of the amount drawn
DisabilityReduced(person, ss_income) ==
    IF person.has_disability /\ person.age < 62
    THEN (ss_income * 70) \div 100 ELSE ss_income

calculate_social_security(person, r) ==
    IF ~Usable(dist.social_security)
    THEN IF person.has_disability THEN uniform(12000, 24000, r)
         ELSE IF person.age >= 67 THEN uniform(18000, 36000, r)
         ELSE IF person.age >= 62 THEN uniform(12000, 28000, r)
         ELSE Ok(0, r)
    ELSE With(FirstRowForAge(dist.social_security, person.age), LAMBDA row :
           IF row = << >> THEN Ok(0, r)
           ELSE Then(normal(row[1].mean_amount, 20, r), LAMBDA drawn :
                  Ok(Min(DisabilityReduced(person, Max(0, drawn.v)),
                         INCOME_CAPS.social_security), drawn.rng)))

ProfessionalGroups ==
    { <<"1", "1">>, <<"1", "3">>, <<"1", "5">>, <<"1", "7">>, <<"2", "3">>, <<"2", "9">> }

\* probability of retirement income, in percent
RetirementProbability(person) ==
    Min(80, (person.age - 55) * 4 + 10)
    + (IF person.occupation_code # NoOccupation
          /\ SocMajor(person.occupation_code) \in ProfessionalGroups
       THEN 15 ELSE 0)

\* the amount of retirement income of a person who has some
RetirementAmount(person, r) ==
    IF ~Usable(dist.retirement_income)
    THEN IF person.age >= 70 THEN uniform(15000, 60000, r)
         ELSE uniform(5000, 40000, r)
    ELSE With(FirstRowForAge(dist.retirement_income, person.age), LAMBDA row :
           IF row = << >> THEN uniform(10000, 40000, r)
           ELSE Then(normal(row[1].mean_amount, 25, r), LAMBDA drawn :
                  Ok(Min(Max(0, drawn.v), INCOME_CAPS.retirement),
                     drawn.rng)))

calculate_retirement_income(person, r) ==
    IF person.age < 55 THEN Ok(0, r)
    ELSE With(random_lt(RetirementProbability(person), r), LAMBDA roll :
           IF ~roll.v THEN Ok(0, roll.rng)
           ELSE RetirementAmount(person, roll.rng))

\* bracket.replace(',', '').replace('$', '')
StripMoney(bracket) == Remove(Remove(bracket, ","), "$")

\* the except clause of _sample_from_income_bracket
IncomeBracketFallback(r) == uniform(1000, 10000, r)

\* an amount within an income bracket like '1000-4999'; parse errors draw
\* uniformly from 1000 to 10000
sample_from_income_bracket(bracket, r) ==
    IF Contains(bracket, "-")
    THEN With(Split(StripMoney(bracket), "-"), LAMBDA parts :
           IF ParseInt(parts[1]).ok /\ ParseInt(parts[2]).ok
           THEN uniform(ParseInt(parts[1]).val, ParseInt(parts[2]).val, r)
           ELSE IncomeBracketFallback(r))
    ELSE IF EndsWith(bracket, "+")
    THEN With(ParseInt(StripMoney(Remove(bracket, "+"))), LAMBDA min_val :
           IF min_val.ok
           THEN With(exponential(min_val.val \div 2, r),
                     LAMBDA e : Ok(e.v + min_val.val, e.rng))
           ELSE IncomeBracketFallback(r))
    ELSE With(ParseInt(StripMoney(bracket)), LAMBDA val :
           IF val.ok THEN Ok(val.val, r) ELSE IncomeBracketFallback(r))

get_investment_probability(age, income) ==
    Min(80, 10 + (IF age >= 45 THEN 10 ELSE 0) + (IF age >= 55 THEN 10 ELSE 0)
               + (IF age >= 65 THEN 15 ELSE 0)
               + (IF income >= 50000 THEN 10 ELSE 0)
               + (IF income >= 100000 THEN 15 ELSE 0)
               + (IF income >= 150000 THEN 15 ELSE 0))

\* (interest, dividend) drawn without the table, by level of income
DefaultInvestmentIncome(lo, hiInterest, hiDividend, r) ==
    With(uniform(lo, hiInterest, r), LAMBDA interest :
      With(uniform(lo, hiDividend, interest.rng), LAMBDA dividend :
        Ok([interest |-> Min(interest.v, INCOME_CAPS.interest),
            dividend |-> Min(dividend.v, INCOME_CAPS.dividend)],
           dividend.rng)))

\* (interest, dividend) split from an amount drawn from the table
TableInvestmentIncome(r) ==
    Then(weighted_sample(dist.interest_and_dividend_income.rows, "weight", r),
      LAMBDA row :
        With(sample_from_income_bracket(row.v.income_bracket, row.rng),
          LAMBDA amount :
            With(uniform(30, 50, amount.rng), LAMBDA split :
              Ok([interest |-> Min((amount.v * split.v) \div 100,
                                   INCOME_CAPS.interest),
                  dividend |-> Min((amount.v * (100 - split.v)) \div 100,
                                   INCOME_CAPS.dividend)],
                 split.rng))))

\* (interest, dividend)
calculate_investment_income(person, current_income, r) ==
    With(random_lt(get_investment_probability(person.age, current_income), r),
      LAMBDA roll :
        IF ~roll.v THEN Ok([interest |-> 0, dividend |-> 0], roll.rng)
        ELSE IF ~Usable(dist.interest_and_dividend_income)
        THEN IF current_income > 100000
             THEN DefaultInvestmentIncome(2000, 15000, 20000, roll.rng)
             ELSE IF current_income > 50000
             THEN DefaultInvestmentIncome(500, 5000, 8000, roll.rng)
             ELSE DefaultInvestmentIncome(100, 2000, 3000, roll.rng)
        ELSE TableInvestmentIncome(roll.rng))

\* rows of the table for the employment status, else every row
OtherIncomeRows(employment_status) ==
    With(SelectSeq(dist.other_income_by_employment_status.rows,
                   LAMBDA row : row.employment_status = employment_status),
      LAMBDA matching :
        IF Len(matching) = 0 THEN dist.other_income_by_employment_status.rows
        ELSE matching)

calculate_other_income(person, r) ==
    With(random_lt(8, r), LAMBDA roll :
      IF ~roll.v THEN Ok(0, roll.rng)
      ELSE IF ~Usable(dist.other_income_by_employment_status)
      THEN uniform(1000, 10000, roll.rng)
      ELSE Then(normal(OtherIncomeRows(person.employment_status)[1]
                           .mean_amount, 30, roll.rng),
             LAMBDA drawn :
               Ok(Min(Max(0, drawn.v), INCOME_CAPS.other), drawn.rng)))

\* a step of _assign_adult_income: a result that carries the person updated
Carry(person, x) == [v |-> person, rng |-> x.rng, err |-> x.err]

\* wage and self-employment income of the employed
AssignEarnings(person, r) ==
    IF person.employment_status = EMPLOYED
    THEN With(calculate_wage_income(person, r), LAMBDA wage :
           With([person EXCEPT !.wage_income = wage.v], LAMBDA p :
             With(calculate_self_employment_income(p, wage.rng), LAMBDA se :
               Carry([p EXCEPT !.self_employment_income = se.v], se))))
    ELSE Ok(person, r)

\* the benefit of the unemployed is stored in wage_income
AssignUnemployment(person, r) ==
    IF person.employment_status = UNEMPLOYED
    THEN With(calculate_unemployment_income(r), LAMBDA ui :
           Carry([person EXCEPT !.wage_income = ui.v], ui))
    ELSE Ok(person, r)

AssignSocialSecurity(person, r) ==
    IF person.age >= 62 \/ person.has_disability
    THEN With(calculate_social_security(person, r), LAMBDA ss :
           Carry([person EXCEPT !.social_security_income = ss.v], ss))
    ELSE Ok(person, r)

AssignRetirement(person, r) ==
    IF person.age >= 55
    THEN With(calculate_retirement_income(person, r), LAMBDA ret :
           Carry([person EXCEPT !.retirement_income = ret.v], ret))
    ELSE Ok(person, r)

AssignInvestment(person, r) ==
    With(calculate_investment_income(person,
             person.wage_income + person.self_employment_income
             + person.social_security_income + person.retirement_income, r),
      LAMBDA inv :
        IF inv.err THEN Raised(inv.rng)
        ELSE Ok([person EXCEPT !.interest_income = inv.v.interest,
                               !.dividend_income = inv.v.dividend], inv.rng))

AssignOther(person, r) ==
    With(calculate_other_income(person, r), LAMBDA other :
      Carry([person EXCEPT !.other_income = other.v], other))

assign_adult_income(person, r) ==
    Then(AssignEarnings(person, r), LAMBDA p1 :
    Then(AssignUnemployment(p1.v, p1.rng), LAMBDA p2 :
    Then(AssignSocialSecurity(p2.v, p2.rng), LAMBDA p3 :
    Then(AssignRetirement(p3.v, p3.rng), LAMBDA p4 :
    Then(AssignInvestment(p4.v, p4.rng), LAMBDA p5 :
    Then(AssignOther(p5.v, p5.rng), LAMBDA p6 : p6))))))

assign_child_income(person, r) ==
    IF person.employment_status = EMPLOYED
       /\ 16 <= person.age /\ person.age <= 17
    THEN With(uniform(5000, 15000, r), LAMBDA wage :
           Ok([person EXCEPT !.wage_income = wage.v], wage.rng))
    ELSE Ok(person, r)

\* the loop of assign_income over the members, in order
RECURSIVE assign_each_income(_, _, _)
assign_each_income(members, done, r) ==
    IF members = << >> THEN Ok(done, r)
    ELSE Then(IF is_adult(Head(members))
              THEN assign_adult_income(Head(members), r)
              ELSE assign_child_income(Head(members), r),
           LAMBDA person :
             assign_each_income(Tail(members), Append(done, person.v),
                                person.rng))

\* index of the first member with the relationship, 0 when none
RECURSIVE IndexOfFirst(_, _, _)
IndexOfFirst(members, relationship, i) ==
    IF i > Len(members) THEN 0
    ELSE IF members[i].relationship = relationship THEN i
    ELSE IndexOfFirst(members, relationship, i + 1)

\* the federal poverty threshold of a household of the size
PovertyThreshold(household_size) == 14580 + (household_size - 1) * 5140

\* the amount of public assistance before the cap
PublicAssistanceAmount(total, household_size, r) ==
    IF ~Usable(dist.public_assistance_income)
    THEN IF total < PovertyThreshold(household_size)
         THEN uniform(3000, 8000, r)
         ELSE uniform(1000, 4000, r)
    ELSE Then(weighted_sample(dist.public_assistance_income.rows,
                              "weighted_count", r),
           LAMBDA row :
             Then(normal(row.v.mean_amount, 20, row.rng), LAMBDA drawn :
               Ok(Max(0, drawn.v), drawn.rng)))

\* the householder, when there is one, receives the capped amount
GivePublicAssistance(household, householder, pa_amount) ==
    IF householder = 0 THEN Ok(household, pa_amount.rng)
    ELSE Ok([household EXCEPT
               !.members[householder].public_assistance_income =
                   Min(pa_amount.v, INCOME_CAPS.public_assistance)],
            pa_amount.rng)

\* assistance given without the test of means
assign_public_assistance_untested(household, r) ==
    Then(PublicAssistanceAmount(total_household_income(household),
                                Len(household.members), r),
      LAMBDA pa_amount :
        GivePublicAssistance(household,
            IndexOfFirst(household.members, HOUSEHOLDER, 1), pa_amount))

assign_public_assistance(household, r) ==
    IF 2 * total_household_income(household)
         >= 3 * PovertyThreshold(Len(household.members))
    THEN Ok(household, r)
    ELSE Then(PublicAssistanceAmount(total_household_income(household),
                                     Len(household.members), r),
           LAMBDA pa_amount :
             GivePublicAssistance(household,
                 IndexOfFirst(household.members, HOUSEHOLDER, 1), pa_amount))

assign_income(household, r) ==
    Then(assign_each_income(household.members, << >>, r), LAMBDA members :
      assign_public_assistance([household EXCEPT !.members = members.v],
                               members.rng))

\* ------------------------------------------------------------------------
\* expense_generator.py, Stage 5 (tax rates in hundredths of a percent)
\* ------------------------------------------------------------------------
\* upper limit of the last bracket of a schedule (float('inf'))
Infinity == 1000000000

HAWAII_TAX_BRACKETS_SINGLE ==
    << << 2400, 140 >>, << 4800, 320 >>, << 9600, 550 >>, << 14400, 640 >>,
       << 19200, 680 >>, << 24000, 720 >>, << 36000, 760 >>, << 48000, 790 >>,
       << 150000, 825 >>, << 175000, 900 >>, << 200000, 1000 >>,
       << Infinity, 1100 >> >>

HAWAII_TAX_BRACKETS_MFJ ==
    << << 4800, 140 >>, << 9600, 320 >>, << 19200, 550 >>, << 28800, 640 >>,
       << 38400, 680 >>, << 48000, 720 >>, << 72000, 760 >>, << 96000, 790 >>,
       << 300000, 825 >>, << 350000, 900 >>, << 400000, 1000 >>,
       << Infinity, 1100 >> >>

IRA_CONTRIBUTION_LIMIT == 6500

IRA_CONTRIBUTION_LIMIT_50_PLUS == 7500

STUDENT_LOAN_INTEREST_LIMIT == 2500

EDUCATOR_EXPENSE_LIMIT == 300

SALT_CAP == 10000

\* np.random.random() < num/den
random_below(num, den, r) == Ok((RngStep(r) % den) < num, RngStep(r))

get_age_bracket_for_homeownership(age) ==
    IF age < 25 THEN <<"<", "2", "5">>
    ELSE IF age < 35 THEN <<"2", "5", "-", "3", "4">>
    ELSE IF age < 45 THEN <<"3", "5", "-", "4", "4">>
    ELSE IF age < 55 THEN <<"4", "5", "-", "5", "4">>
    ELSE IF age < 65 THEN <<"5", "5", "-", "6", "4">>
    ELSE <<"6", "5", "+">>

get_income_bracket_for_homeownership(income) ==
    IF income < 25000 THEN <<"<", "$", "2", "5", "K">>
    ELSE IF income < 50000 THEN <<"$", "2", "5", "-", "5", "0", "K">>
    ELSE IF income < 75000 THEN <<"$", "5", "0", "-", "7", "5", "K">>
    ELSE IF income < 100000 THEN <<"$", "7", "5", "-", "1", "0", "0", "K">>
    ELSE IF income < 150000 THEN <<"$", "1", "0", "0", "-", "1", "5", "0", "K">>
    ELSE <<"$", "1", "5", "0", "K", "+">>

\* base probability of owning a home by age, in percent
OwnerBaseByAge(age) ==
    IF age < 25 THEN 25 ELSE IF age < 35 THEN 37 ELSE IF age < 45 THEN 55
    ELSE IF age < 55 THEN 65 ELSE IF age < 65 THEN 70 ELSE 78

\* factor of the probability by income, in percent
OwnerFactorByIncome(income) ==
    IF income < 25000 THEN 60 ELSE IF income < 50000 THEN 80
    ELSE IF income < 100000 THEN 100 ELSE IF income < 150000 THEN 110
    ELSE 115

\* fallback probability of owning a home, in millionths
estimate_homeownership_probability(age, income, state, r) ==
    random_below(Min(900000, OwnerBaseByAge(age) * OwnerFactorByIncome(income)
                             * (IF state = "HI" THEN 91 ELSE 100)),
                 1000000, r)

\* rows of the age and income bracket, else of the income bracket, else of
\* the age bracket, else every row
HomeownershipRows(both, by_income, by_age) ==
    IF Len(both) > 0 THEN both
    ELSE IF Len(by_income) > 0 THEN by_income
    ELSE IF Len(by_age) > 0 THEN by_age
    ELSE dist.homeownership_rates.rows

\* the owner weight over the total weight of the rows
OwnerShare(filtered, r) ==
    IF SumSeq(Column(filtered, "weighted_count")) = 0 THEN Ok(FALSE, r)
    ELSE random_below(
             SumSeq(Column(SelectSeq(filtered,
                 LAMBDA row : row.tenure \in {"owner_with_mortgage",
                                              "owner_free_clear"}),
                 "weighted_count")),
             SumSeq(Column(filtered, "weighted_count")), r)

sample_homeownership_from_data(age, income, state, r) ==
    With(HomeownershipRows(
             SelectSeq(dist.homeownership_rates.rows,
                 LAMBDA row :
                   /\ row.age_bracket = get_age_bracket_for_homeownership(age)
                   /\ row.income_bracket
                        = get_income_bracket_for_homeownership(income)),
             SelectSeq(dist.homeownership_rates.rows,
                 LAMBDA row : row.income_bracket
                        = get_income_bracket_for_homeownership(income)),
             SelectSeq(dist.homeownership_rates.rows,
                 LAMBDA row : row.age_bracket
                        = get_age_bracket_for_homeownership(age))),
      LAMBDA filtered :
        IF Len(filtered) = 0
        THEN estimate_homeownership_probability(age, income, state, r)
        ELSE OwnerShare(filtered, r))

determine_homeownership(household, r) ==
    With(get_householder(household), LAMBDA householder :
      IF householder = << >> THEN Ok(FALSE, r)
      ELSE IF Usable(dist.homeownership_rates)
      THEN sample_homeownership_from_data(householder[1].age,
               total_household_income(household), household.state, r)
      ELSE estimate_homeownership_probability(householder[1].age,
               total_household_income(household), household.state, r))

UpperCase == <<"A", "B", "C", "D", "E", "F", "G", "H", "I", "J", "K", "L", "M",
               "N", "O", "P", "Q", "R", "S", "T", "U", "V", "W", "X", "Y", "Z">>

LowerCase == <<"a", "b", "c", "d", "e", "f", "g", "h", "i", "j", "k", "l", "m",
               "n", "o", "p", "q", "r", "s", "t", "u", "v", "w", "x", "y", "z">>

\* str.lower()
Lower(s) ==
    [i \in 1..Len(s) |->
        IF \E j \in 1..Len(UpperCase) : UpperCase[j] = s[i]
        THEN LowerCase[CHOOSE j \in 1..Len(UpperCase) : UpperCase[j] = s[i]]
        ELSE s[i]]

\* bracket.replace('$', '').replace(',', '').lower() with 'k' as '000'
NormalBracket(label) ==
    ReplaceSub(StripMoney(Lower(label)), <<"k">>, <<"0", "0", "0">>)

\* whether the income lies in a bracket in normal form
InNormalBracket(income, bracket) ==
    IF StartsWith(bracket, "<")
    THEN With(ParseInt(Tail(bracket)),
              LAMBDA max_val : max_val.ok /\ income < max_val.val)
    ELSE IF EndsWith(bracket, "+")
    THEN With(ParseInt(Take(bracket, Len(bracket) - 1)),
              LAMBDA min_val : min_val.ok /\ income >= min_val.val)
    ELSE IF Contains(bracket, "-")
    THEN With(Split(bracket, "-"), LAMBDA parts :
           /\ ParseInt(parts[1]).ok /\ ParseInt(parts[2]).ok
           /\ ParseInt(parts[1]).val <= income
           /\ income < ParseInt(parts[2]).val)
    ELSE FALSE

income_in_bracket(income, label) ==
    InNormalBracket(income, NormalBracket(label))

\* the first bracket of the table that contains the income, else the last
get_income_bracket(income, table) ==
    With(Unique(Column(table.rows, "income_bracket")), LAMBDA brackets :
      With(SelectSeq(brackets, LAMBDA b : income_in_bracket(income, b)),
        LAMBDA matching :
          IF Len(matching) > 0 THEN matching[1]
          ELSE brackets[Len(brackets)]))

\* a normal draw around the mean listed for the income, at least floor
SampleAroundMean(table, income, sdPct, floor, r) ==
    Then(normal(SelectSeq(table.rows,
                    LAMBDA x : x.income_bracket
                               = get_income_bracket(income, table))[1]
                    .mean_amount, sdPct, r),
      LAMBDA drawn : Ok(Max(floor, drawn.v), drawn.rng))

sample_property_taxes(household, r) ==
    With(total_household_income(household), LAMBDA income :
      IF ~Usable(dist.property_taxes)
      THEN IF income < 50000 THEN uniform(1000, 2500, r)
           ELSE IF income < 100000 THEN uniform(2000, 4500, r)
           ELSE IF income < 200000 THEN uniform(3500, 7000, r)
           ELSE uniform(5000, 12000, r)
      ELSE SampleAroundMean(dist.property_taxes, income, 25, 500, r))

\* mortgage interest of a household that still pays a mortgage
MortgageInterestOf(income, r) ==
    IF ~Usable(dist.mortgage_interest)
    THEN IF income < 50000 THEN uniform(3000, 8000, r)
         ELSE IF income < 100000 THEN uniform(6000, 15000, r)
         ELSE IF income < 200000 THEN uniform(10000, 25000, r)
         ELSE uniform(15000, 35000, r)
    ELSE SampleAroundMean(dist.mortgage_interest, income, 30, 0, r)

sample_mortgage_interest(household, r) ==
    With(get_householder(household), LAMBDA householder :
      IF householder # << >> /\ householder[1].age >= 65
      THEN With(random_lt(40, r), LAMBDA paid_off :
             IF paid_off.v THEN Ok(0, paid_off.rng)
             ELSE MortgageInterestOf(total_household_income(household),
                                     paid_off.rng))
      ELSE MortgageInterestOf(total_household_income(household), r))

assign_housing_expenses(household, r) ==
    With(determine_homeownership(household, r), LAMBDA is_homeowner :
      IF ~is_homeowner.v
      THEN Ok([household EXCEPT !.property_taxes = 0,
                                !.mortgage_interest = 0], is_homeowner.rng)
      ELSE Then(sample_property_taxes(household, is_homeowner.rng),
             LAMBDA property_taxes :
               Then(sample_mortgage_interest(household, property_taxes.rng),
                 LAMBDA mortgage_interest :
                   Ok([household EXCEPT
                         !.property_taxes = property_taxes.v,
                         !.mortgage_interest = mortgage_interest.v],
                      mortgage_interest.rng))))

RECURSIVE ProgressiveTax(_, _, _)
ProgressiveTax(income, brackets, prev_bracket) ==
    IF brackets = << >> \/ income <= prev_bracket THEN 0
    ELSE (Min(income, Head(brackets)[1]) - prev_bracket) * Head(brackets)[2]
         + ProgressiveTax(income, Tail(brackets), Head(brackets)[1])

calculate_progressive_tax(income, brackets) ==
    ProgressiveTax(income, brackets, 0) \div 10000

assign_state_income_tax(household) ==
    [household EXCEPT
       !.state_income_tax =
           calculate_progressive_tax(total_household_income(household),
               IF household.pattern \in {"married_couple_with_children",
                                         "married_couple_no_children"}
               THEN HAWAII_TAX_BRACKETS_MFJ
               ELSE HAWAII_TAX_BRACKETS_SINGLE)]

\* probability of medical expenses above the floor, in percent
MedicalProbability(members) ==
    10 + (IF \E i \in 1..Len(members) : members[i].age >= 65
          THEN 25 ELSE 0)
       + (IF \E i \in 1..Len(members) : members[i].has_disability
          THEN 20 ELSE 0)
       + (IF Len(members) >= 4 THEN 10 ELSE 0)

assign_medical_expenses(household, r) ==
    With(random_lt(MedicalProbability(household.members), r), LAMBDA roll :
      IF ~roll.v THEN Ok([household EXCEPT !.medical_expenses = 0], roll.rng)
      ELSE With(exponential(5000, roll.rng), LAMBDA excess :
             Ok([household EXCEPT
                   !.medical_expenses =
                       (total_household_income(household) * 75) \div 1000
                       + excess.v],
                excess.rng)))

\* the share of income given, in hundredths of a percent
GivingRate(income, r) ==
    IF income < 30000 THEN uniform(50, 200, r)
    ELSE IF income < 75000 THEN uniform(100, 250, r)
    ELSE IF income < 150000 THEN uniform(150, 350, r)
    ELSE uniform(200, 600, r)

\* one gift in twenty is 1.5 to 3 times larger
LargerGift(amount, r) ==
    With(random_lt(5, r), LAMBDA larger :
      IF larger.v
      THEN With(uniform(150, 300, larger.rng), LAMBDA factor :
             Ok((amount * factor.v) \div 100, factor.rng))
      ELSE Ok(amount, larger.rng))

\* giving rates in hundredths of a percent
assign_charitable_contributions(household, r) ==
    With(total_household_income(household), LAMBDA income :
      With(random_lt(65, r), LAMBDA gives :
        IF ~gives.v
        THEN Ok([household EXCEPT !.charitable_contributions = 0], gives.rng)
        ELSE With(GivingRate(income, gives.rng), LAMBDA rate :
               With(LargerGift((income * rate.v) \div 10000, rate.rng),
                 LAMBDA gift :
                   Ok([household EXCEPT
                         !.charitable_contributions =
                             Min(gift.v, (income * 60) \div 100)],
                      gift.rng)))))

AdvancedDegrees == {"masters", "doctorate", "professional"}

\* probability of a student loan, in hundredths of a percent
StudentLoanProbability(person) ==
    With(IF person.education \in AdvancedDegrees THEN 5000
         ELSE IF person.education = "bachelors" THEN 4000 ELSE 2500,
      LAMBDA base_prob :
        With(IF person.age > 35 THEN (base_prob * 60) \div 100 ELSE base_prob,
          LAMBDA over35 :
            IF person.age > 45 THEN (over35 * 50) \div 100 ELSE over35))

\* average interest paid on a student loan
AverageLoanInterest(person) ==
    IF person.education \in AdvancedDegrees THEN 1800
    ELSE IF person.education = "bachelors" THEN 1400 ELSE 800

\* probabilities in hundredths of a percent
calculate_student_loan_interest(person, r) ==
    IF person.age < 22 \/ person.age > 50 THEN Ok(0, r)
    ELSE IF person.education \notin
              ({"some_college", "associates", "bachelors"}
               \cup AdvancedDegrees)
    THEN Ok(0, r)
    ELSE With(random_below(StudentLoanProbability(person), 10000, r),
           LAMBDA roll :
             IF ~roll.v THEN Ok(0, roll.rng)
             ELSE With(normal(AverageLoanInterest(person), 30, roll.rng),
                    LAMBDA interest :
                      Ok(Min(Max(0, interest.v), STUDENT_LOAN_INTEREST_LIMIT),
                         interest.rng)))

calculate_educator_expenses(person, r) ==
    IF person.occupation_code = NoOccupation THEN Ok(0, r)
    ELSE IF Take(Remove(person.occupation_code, "-"), 2) # <<"2", "5">>
    THEN Ok(0, r)
    ELSE With(random_lt(70, r), LAMBDA roll :
           IF ~roll.v THEN Ok(0, roll.rng)
           ELSE uniform(150, EDUCATOR_EXPENSE_LIMIT, roll.rng))

\* probability of a contribution, in tenths of a percent
IraProbability(person) ==
    With(IF person.wage_income < 25000 THEN 50
         ELSE IF person.wage_income < 50000 THEN 100
         ELSE IF person.wage_income < 100000 THEN 180 ELSE 250,
      LAMBDA base_prob :
        IF 35 <= person.age /\ person.age <= 55
        THEN (base_prob * 13) \div 10 ELSE base_prob)

IraLimit(person) ==
    IF person.age >= 50 THEN IRA_CONTRIBUTION_LIMIT_50_PLUS
    ELSE IRA_CONTRIBUTION_LIMIT

\* probabilities in tenths of a percent
calculate_ira_contributions(person, r) ==
    IF person.employment_status # EMPLOYED THEN Ok(0, r)
    ELSE IF person.age < 21 \/ person.age > 70 THEN Ok(0, r)
    ELSE With(random_below(IraProbability(person), 1000, r), LAMBDA roll :
           IF ~roll.v THEN Ok(0, roll.rng)
           ELSE With(random_lt(30, roll.rng), LAMBDA maxed :
                  IF maxed.v THEN Ok(IraLimit(person), maxed.rng)
                  ELSE uniform(500, (IraLimit(person) * 8) \div 10,
                               maxed.rng)))

\* the three deductions of one adult
AdultDeductions(person, r) ==
    With(calculate_student_loan_interest(person, r), LAMBDA loan :
      With(calculate_educator_expenses(person, loan.rng), LAMBDA educator :
        With(calculate_ira_contributions(person, educator.rng), LAMBDA ira :
          Ok([person EXCEPT !.student_loan_interest = loan.v,
                            !.educator_expenses = educator.v,
                            !.ira_contributions = ira.v], ira.rng))))

\* the loop of _assign_above_line_deductions over the members, in order
RECURSIVE assign_each_deduction(_, _, _)
assign_each_deduction(members, done, r) ==
    IF members = << >> THEN Ok(done, r)
    ELSE IF ~is_adult(Head(members))
    THEN assign_each_deduction(Tail(members), Append(done, Head(members)), r)
    ELSE With(AdultDeductions(Head(members), r), LAMBDA person :
           assign_each_deduction(Tail(members), Append(done, person.v),
                                 person.rng))

\* deductions that are taken out of the wages of the member who makes them
assign_above_line_deductions_from_wages(household, r) ==
    With(assign_each_deduction(household.members, << >>, r), LAMBDA members :
      Ok([household EXCEPT
            !.members = [i \in 1..Len(members.v) |->
                [members.v[i] EXCEPT
                   !.wage_income = Max(0, @ - members.v[i].ira_contributions)]],
            !.student_loan_interest =
                SumSeq(Column(members.v, "student_loan_interest")),
            !.educator_expenses =
                SumSeq(Column(members.v, "educator_expenses")),
            !.ira_contributions =
                SumSeq(Column(members.v, "ira_contributions"))],
         members.rng))

assign_above_line_deductions(household, r) ==
    With(assign_each_deduction(household.members, << >>, r), LAMBDA members :
      Ok([household EXCEPT
            !.members = members.v,
            !.student_loan_interest =
                SumSeq(Column(members.v, "student_loan_interest")),
            !.educator_expenses =
                SumSeq(Column(members.v, "educator_expenses")),
            !.ira_contributions =
                SumSeq(Column(members.v, "ira_contributions"))],
         members.rng))

\* totals in which state and local taxes are not capped
calculate_totals_uncapped(household) ==
    [household EXCEPT
       !.total_itemized_deductions =
           household.property_taxes + household.state_income_tax
           + household.mortgage_interest
           + Max(0, household.medical_expenses
                    - (total_household_income(household) * 75) \div 1000)
           + household.charitable_contributions,
       !.total_above_line_deductions =
           household.student_loan_interest + household.educator_expenses
           + household.ira_contributions]

\* the cost of paid child care for the number of children under 13
ChildCareCost(num_children, r) ==
    With(uniform(8000, 15000, r), LAMBDA cost :
      Ok(Min((IF num_children >= 2 THEN (cost.v * 85) \div 100 ELSE cost.v)
             * num_children, 16000), cost.rng))

calculate_child_care_expenses(household, r) ==
    IF Len(SelectSeq(household.members,
                     LAMBDA m : ~is_adult(m) /\ m.age < 13)) = 0
       \/ Len(SelectSeq(household.members,
                  LAMBDA m : is_adult(m)
                             /\ m.employment_status = EMPLOYED)) = 0
    THEN Ok(0, r)
    ELSE With(random_lt(65, r), LAMBDA roll :
           IF ~roll.v THEN Ok(0, roll.rng)
           ELSE ChildCareCost(Len(SelectSeq(household.members,
                                  LAMBDA m : ~is_adult(m) /\ m.age < 13)),
                              roll.rng))

\* "undergrad", "graduate" or "" for a member that is no student
StudentType(member) ==
    IF 18 <= member.age /\ member.age <= 24
    THEN IF member.education \in {"some_college", "associates", "bachelors"}
         THEN "undergrad" ELSE ""
    ELSE IF 22 <= member.age /\ member.age <= 35
            /\ member.education \in {"masters", "doctorate", "professional"}
    THEN "graduate"
    ELSE ""

\* tuition of one student: community college or state university for an
\* undergraduate, both drawn before the choice between them
Tuition(student_type, r) ==
    IF student_type = "undergrad"
    THEN With(uniform(3000, 5000, r), LAMBDA community :
           With(uniform(8000, 15000, community.rng), LAMBDA university :
             choice(<< community.v, university.v >>, << 40, 60 >>,
                    university.rng)))
    ELSE uniform(10000, 30000, r)

\* the tuition loop of _calculate_education_expenses over the students
RECURSIVE TotalTuition(_, _)
TotalTuition(students, r) ==
    IF students = << >> THEN Ok(0, r)
    ELSE With(Tuition(StudentType(Head(students)), r), LAMBDA tuition :
           With(TotalTuition(Tail(students), tuition.rng), LAMBDA rest :
             Ok(tuition.v + rest.v, rest.rng)))

calculate_education_expenses(household, r) ==
    With(SelectSeq(household.members, LAMBDA m : StudentType(m) # ""),
      LAMBDA students :
        IF students = << >> THEN Ok(0, r)
        ELSE With(random_lt(60, r), LAMBDA roll :
               IF ~roll.v THEN Ok(0, roll.rng)
               ELSE TotalTuition(students, roll.rng)))

assign_credit_expenses(household, r) ==
    With(calculate_child_care_expenses(household, r), LAMBDA child_care :
      With(calculate_education_expenses(household, child_care.rng),
        LAMBDA education :
          Ok([household EXCEPT !.child_care_expenses = child_care.v,
                               !.education_expenses = education.v],
             education.rng)))

calculate_totals(household) ==
    [household EXCEPT
       !.total_itemized_deductions =
           Min(household.property_taxes + household.state_income_tax, SALT_CAP)
           + household.mortgage_interest
           + Max(0, household.medical_expenses
                    - (total_household_income(household) * 75) \div 1000)
           + household.charitable_contributions,
       !.total_above_line_deductions =
           household.student_loan_interest + household.educator_expenses
           + household.ira_contributions]

assign_expenses(household, r) ==
    Then(assign_housing_expenses(household, r), LAMBDA housing :
    With(assign_medical_expenses(assign_state_income_tax(housing.v),
                                 housing.rng), LAMBDA medical :
    With(assign_charitable_contributions(medical.v, medical.rng),
      LAMBDA charitable :
    With(assign_above_line_deductions(charitable.v, charitable.rng),
      LAMBDA above_line :
    With(assign_credit_expenses(above_line.v, above_line.rng),
      LAMBDA credit :
        Ok(calculate_totals(credit.v), credit.rng))))))

\* ------------------------------------------------------------------------
\* database.py: the tables a generator instance may have loaded
\* ------------------------------------------------------------------------
DistFull ==
    [household_patterns |-> Table(HouseholdPatternsFull),
     employment_by_age |-> Table(EmploymentByAge),
     multigenerational_patterns |-> Table(MultigenerationalPatterns),
     spousal_age_gaps |-> Table(SpousalAgeGaps),
     couple_sex_patterns |-> Table(CoupleSexPatterns),
     race_by_age |-> Table(RaceByAge),
     race_distribution |-> Table(RaceDistribution),
     hispanic_origin_by_age |-> Table(HispanicOriginByAge),
     education_by_age |-> Table(EducationByAge),
     disability_by_age |-> Table(DisabilityByAge),
     education_occupation_probabilities |->
         Table(EducationOccupationProbabilities),
     bls_occupation_wages |-> Table(BlsOccupationWages),
     children_by_parent_age |-> Table(ChildrenByParentAge),
     child_age_distributions |-> Table(ChildAgeDistributions),
     stepchild_patterns |-> Table(StepchildPatterns),
     age_income_adjustments |-> Table(AgeIncomeAdjustments),
     occupation_self_employment_probability |->
         Table(OccupationSelfEmploymentProbability),
     social_security |-> Table(SocialSecurity),
     retirement_income |-> Table(RetirementIncome),
     interest_and_dividend_income |-> Table(InterestAndDividendIncome),
     other_income_by_employment_status |->
         Table(OtherIncomeByEmploymentStatus),
     public_assistance_income |-> Table(PublicAssistanceIncome),
     homeownership_rates |-> Table(HomeownershipRates),
     property_taxes |-> Table(PropertyTaxes),
     mortgage_interest |-> Table(MortgageInterest)]

\* every table but the required one
OptionalTables == DOMAIN DistFull \ {"household_patterns"}

\* the optional tables each stage reads
StageTables ==
    << {},
       {"employment_by_age", "multigenerational_patterns", "spousal_age_gaps",
        "couple_sex_patterns", "race_by_age", "race_distribution",
        "hispanic_origin_by_age", "education_by_age", "disability_by_age",
        "education_occupation_probabilities", "bls_occupation_wages"},
       {"children_by_parent_age", "child_age_distributions",
        "stepchild_patterns", "multigenerational_patterns"},
       {"bls_occupation_wages", "age_income_adjustments",
        "occupation_self_employment_probability", "social_security",
        "retirement_income", "interest_and_dividend_income",
        "other_income_by_employment_status", "public_assistance_income"},
       {"homeownership_rates", "property_taxes", "mortgage_interest"} >>

\* the loader's result when the tables named are missing from the database
Without(missing) ==
    [name \in DOMAIN DistFull |->
        IF name \in missing THEN Absent ELSE DistFull[name]]

\* contents the required table may have
PatternTables ==
    {Absent, Table(<< >>), Table(HouseholdPatternsZero),
     Table(HouseholdPatternsSingleParent), Table(HouseholdPatternsNoMedium)}

DistConfigs ==
    {DistFull, Without(OptionalTables),
     [DistFull EXCEPT !.children_by_parent_age = Table(ChildrenByParentAgeNone)]}
    \cup {Without(StageTables[s]) : s \in 2..5}
    \cup {Without(OptionalTables \ StageTables[s]) : s \in 2..5}
    \cup {[d EXCEPT !.household_patterns = t] :
            d \in {DistFull, Without(OptionalTables)}, t \in PatternTables}

\* employment_by_age as extracted from a population that lacks some ages:
\* the rows of the brackets kept
EmploymentOfBrackets(kept) ==
    SelectSeq(EmploymentByAge, LAMBDA row : row.age_bracket \in kept)

EmploymentBracketSets ==
    SUBSET {EmploymentByAge[i].age_bracket : i \in 1..Len(EmploymentByAge)}
        \ {{}}

\* the required table loaded in full, and of the optional tables: all, none,
\* all but one, only one, all but those of one stage, only those of one stage;
\* and every table loaded, with each set of brackets in employment_by_age
TableConfigs ==
    {DistFull, Without(OptionalTables)}
    \cup {Without({name}) : name \in OptionalTables}
    \cup {Without(OptionalTables \ {name}) : name \in OptionalTables}
    \cup {Without(StageTables[s]) : s \in 2..5}
    \cup {Without(OptionalTables \ StageTables[s]) : s \in 2..5}
    \cup {[DistFull EXCEPT !.employment_by_age =
                               Table(EmploymentOfBrackets(kept))] :
            kept \in EmploymentBracketSets}

\* ------------------------------------------------------------------------
\* pipeline.py: the generator as a state machine
\* ------------------------------------------------------------------------
Complexities == {None, "simple", "medium", "complex"}

\* pattern arguments: none, each pattern of the full table, an unknown name
PatternArgs ==
    {None, "no_such_pattern"}
    \cup {HouseholdPatternsFull[i].pattern : i \in 1..Len(HouseholdPatternsFull)}

\* the seed argument: no seed (None), or a seed as a sequence of one number
NoSeed == << >>

Seeds == {NoSeed} \cup {<< seed >> : seed \in 1..NumSeeds}

\* HouseholdGenerator.__init__: the tables are loaded once; nothing has run
Constructed(configs) ==
    /\ dist \in configs
    /\ rng \in 0..(NumInitRng - 1)
    /\ pc = "idle"
    /\ args = [op |-> None, count |-> 0, complexity |-> None,
               pattern |-> None, seed |-> NoSeed]
    /\ cur = << >>
    /\ households = << >>
    /\ remaining = 0
    /\ stagesRun = << >>
    /\ prev = [raised |-> FALSE, households |-> << >>]
    /\ calls = 0
    /\ nextId = 1

\* a generator over any of the databases considered
Init == Constructed(DistConfigs)

\* what a call sampled: everything but the uuid4 identifiers and the fields
\* that only Stage 5 writes
SampledPerson(p) ==
    [relationship |-> p.relationship, age |-> p.age, sex |-> p.sex,
     race |-> p.race, hispanic_origin |-> p.hispanic_origin,
     employment_status |-> p.employment_status, education |-> p.education,
     occupation_code |-> p.occupation_code,
     occupation_title |-> p.occupation_title,
     has_disability |-> p.has_disability,
     wage_income |-> p.wage_income,
     self_employment_income |-> p.self_employment_income,
     social_security_income |-> p.social_security_income,
     retirement_income |-> p.retirement_income,
     interest_income |-> p.interest_income,
     dividend_income |-> p.dividend_income,
     other_income |-> p.other_income,
     public_assistance_income |-> p.public_assistance_income]

SampledHousehold(h) ==
    [pattern |-> h.pattern, state |-> h.state, year |-> h.year,
     multigenerational_subpattern |-> h.multigenerational_subpattern,
     members |-> [i \in 1..Len(h.members) |-> SampledPerson(h.members[i])]]

\* outcome of the call that has just ended
Outcome ==
    [raised |-> pc = "raised",
     households |-> [i \in 1..Len(households) |->
                        SampledHousehold(households[i])]]

\* entry of generate_household / generate_batch: seed, then Stage 1
StartCall(a) ==
    /\ args' = a
    /\ rng' = IF a.seed # NoSeed THEN set_random_seed(a.seed[1]) ELSE rng
    /\ pc' = "stage1"
    /\ cur' = << >>
    /\ households' = << >>
    /\ remaining' = a.count
    /\ stagesRun' = << >>
    /\ calls' = calls + 1
    /\ UNCHANGED << dist, nextId >>

generate_household ==
    /\ pc = "idle"
    /\ \E complexity \in Complexities, pattern \in PatternArgs, seed \in Seeds :
          StartCall([op |-> "generate_household", count |-> 1,
                     complexity |-> complexity, pattern |-> pattern,
                     seed |-> seed])
    /\ UNCHANGED prev

generate_batch ==
    /\ pc = "idle"
    /\ \E count \in 1..MaxBatch, complexity \in Complexities,
          pattern \in PatternArgs, seed \in Seeds :
          StartCall([op |-> "generate_batch", count |-> count,
                     complexity |-> complexity, pattern |-> pattern,
                     seed |-> seed])
    /\ UNCHANGED prev

\* the caller repeats its last call with the same arguments
repeat_call ==
    /\ pc \in {"done", "raised"}
    /\ calls < MaxCalls
    /\ stagesRun # << 1, 2, 3, 4, 5 >>
    /\ prev' = Outcome
    /\ StartCall(args)

generate_stage1 ==
    /\ pc = "stage1"
    /\ LET selected == select_pattern(dist.household_patterns, args.complexity,
                                      args.pattern, rng)
       IN  IF selected.err
           THEN /\ pc' = "raised"
                /\ UNCHANGED << cur, stagesRun, nextId, rng >>
           ELSE /\ cur' = << stage1_household(selected.v, nextId, "HI", 2023) >>
                /\ stagesRun' = << 1 >>
                /\ nextId' = nextId + 1
                /\ rng' = selected.rng
                /\ pc' = "stage2"
    /\ UNCHANGED << dist, args, households, remaining, prev, calls >>

generate_stage2 ==
    /\ pc = "stage2"
    /\ LET adults == generate_adults(cur[1].pattern, nextId, rng)
       IN  /\ rng' = adults.rng
           /\ IF adults.err
               THEN /\ pc' = "raised"
                    /\ UNCHANGED << cur, stagesRun, nextId >>
               ELSE /\ cur' = << [cur[1] EXCEPT
                                    !.members = adults.v,
                                    !.multigenerational_subpattern = adults.sub] >>
                    /\ stagesRun' = Append(stagesRun, 2)
                    /\ nextId' = nextId + Len(adults.v)
                    /\ pc' = "stage3"
    /\ UNCHANGED << dist, args, households, remaining, prev, calls >>

generate_stage3 ==
    /\ pc = "stage3"
    /\ LET children == generate_children(cur[1], nextId, rng)
       IN  /\ rng' = children.rng
           /\ IF children.err
               THEN /\ pc' = "raised"
                    /\ UNCHANGED << cur, stagesRun, nextId >>
               ELSE /\ cur' = << [cur[1] EXCEPT
                                    !.members = cur[1].members \o children.v] >>
                    /\ stagesRun' = Append(stagesRun, 3)
                    /\ nextId' = nextId + Len(children.v)
                    /\ pc' = "stage4"
    /\ UNCHANGED << dist, args, households, remaining, prev, calls >>

generate_stage4 ==
    /\ pc = "stage4"
    /\ LET assigned == assign_income(cur[1], rng)
       IN  /\ rng' = assigned.rng
           /\ IF assigned.err
               THEN /\ pc' = "raised"
                    /\ UNCHANGED << cur, stagesRun >>
               ELSE /\ cur' = << assigned.v >>
                    /\ stagesRun' = Append(stagesRun, 4)
                    /\ pc' = "return"
    /\ UNCHANGED << dist, args, households, remaining, prev, calls, nextId >>

\* a batch that sets the seed again before each further household
return_household_reseeding ==
    /\ pc = "return"
    /\ households' = Append(households, cur[1])
    /\ remaining' = remaining - 1
    /\ IF remaining > 1
       THEN /\ pc' = "stage1" /\ cur' = << >> /\ stagesRun' = << >>
            /\ rng' = IF args.seed # NoSeed THEN set_random_seed(args.seed[1])
                      ELSE rng
       ELSE pc' = "done" /\ UNCHANGED << cur, stagesRun, rng >>
    /\ UNCHANGED << dist, args, prev, calls, nextId >>

\* generate_household returns; generate_batch appends and loops
return_household ==
    /\ pc = "return"
    /\ households' = Append(households, cur[1])
    /\ remaining' = remaining - 1
    /\ IF remaining > 1
       THEN pc' = "stage1" /\ cur' = << >> /\ stagesRun' = << >>
       ELSE pc' = "done" /\ UNCHANGED << cur, stagesRun >>
    /\ UNCHANGED << dist, rng, args, prev, calls, nextId >>

\* ExpenseGenerator(distributions).assign_expenses(household), which a caller
\* applies to the household it received last
apply_assign_expenses ==
    /\ pc = "done"
    /\ stagesRun = << 1, 2, 3, 4 >>
    /\ LET expensed == assign_expenses(households[Len(households)], rng)
       IN  /\ rng' = expensed.rng
           /\ IF expensed.err
               THEN /\ pc' = "raised"
                    /\ UNCHANGED << households, stagesRun >>
               ELSE /\ households' = [households EXCEPT
                                        ![Len(households)] = expensed.v]
                    /\ stagesRun' = Append(stagesRun, 5)
                    /\ pc' = "done"
    /\ UNCHANGED << dist, args, cur, remaining, prev, calls, nextId >>

Next ==
    \/ generate_household
    \/ generate_batch
    \/ generate_stage1
    \/ generate_stage2
    \/ generate_stage3
    \/ generate_stage4
    \/ return_household
    \/ apply_assign_expenses

Spec == Init /\ [][Next]_vars

\* a generator on which the caller repeats its calls, with every table
\* loaded or with only the required one
InitRepeat == Init /\ dist \in {DistFull, Without(OptionalTables)}

NextRepeat == Next \/ repeat_call

SpecRepeat == InitRepeat /\ [][NextRepeat]_vars

\* a generator over every table configuration that has the required table
\* in full
InitTables == Constructed(TableConfigs)

\* callers that ask for one household at a time
NextTables ==
    \/ generate_household
    \/ generate_stage1
    \/ generate_stage2
    \/ generate_stage3
    \/ generate_stage4
    \/ return_household
    \/ apply_assign_expenses

SpecTables == InitTables /\ [][NextTables]_vars

\* ------------------------------------------------------------------------
\* sampler.py called directly, one call per behaviour
\* ------------------------------------------------------------------------
\* tables of up to MaxRows rows with a weight column
WeightedTables ==
    UNION {{[i \in 1..n |-> [id |-> i, weight |-> weights[i]]] :
                weights \in [1..n -> {0, 1, 2}]} : n \in 0..MaxRows}

Bracket(text, shape, lo, hi) ==
    [text |-> text, shape |-> shape, lo |-> lo, hi |-> hi]

\* 'A-B' with A <= B, one of them written with blanks around it
ClosedBrackets ==
    {Bracket(<< "0", "-", "2" >>, "closed", 0, 2),
     Bracket(<< "5", "-", "5" >>, "closed", 5, 5),
     Bracket(<< "1", "4", "-", "1", "7" >>, "closed", 14, 17),
     Bracket(<< "1", "8", "-", "2", "4" >>, "closed", 18, 24),
     Bracket(<< " ", "2", "5", "-", "3", "4", " " >>, "closed", 25, 34)}

\* '<N' with N >= 1
OpenLowBrackets ==
    {Bracket(<< "<", "1" >>, "open_low", 0, 0),
     Bracket(<< "<", "5" >>, "open_low", 0, 4),
     Bracket(<< "<", "1", "8" >>, "open_low", 0, 17)}

\* 'N+' and a single value
OtherBrackets ==
    {Bracket(<< "6", "5", "+" >>, "open_high", 65, 65),
     Bracket(<< "1", "8" >>, "single", 18, 18)}

\* text of none of the four shapes
UnparseableBrackets ==
    {Bracket(<< "u", "n", "k", "n", "o", "w", "n" >>, "none", 0, 0),
     Bracket(<< >>, "none", 0, 0),
     Bracket(<< "a", "-", "b" >>, "none", 0, 0),
     Bracket(<< "1", "8", "-" >>, "none", 0, 0),
     Bracket(<< "<", "x" >>, "none", 0, 0),
     Bracket(<< "x", "+" >>, "none", 0, 0)}

Brackets ==
    ClosedBrackets \cup OpenLowBrackets \cup OtherBrackets
        \cup UnparseableBrackets

Ages == {0, 4, 5, 17, 18, 24, 30, 65, 70}

\* lists of brackets: empty, in order, overlapping, with gaps, with text of
\* no shape
BracketLists ==
    {<< >>,
     << << "<", "1", "8" >>, << "1", "8", "-", "2", "4" >>,
        << "6", "5", "+" >> >>,
     << << "1", "8", "-", "2", "4" >>, << "1", "8" >>, << "<", "5" >> >>,
     << << "1", "8" >>, << "1", "8", "-", "2", "4" >> >>,
     << << "6", "5", "+" >>, << "0", "-", "2" >> >>,
     << << "u", "n", "k", "n", "o", "w", "n" >>, << "<", "5" >> >>,
     << << "<", "5" >>, << "u", "n", "k", "n", "o", "w", "n" >> >>}

SamplerCall(op, rows, bracket, age, brackets) ==
    [op |-> op, rows |-> rows, bracket |-> bracket, age |-> age,
     brackets |-> brackets]

NoBracket == Bracket(<< >>, "none", 0, 0)

\* the calls considered; a call of get_age_bracket carries the bracket its caller
\* wants when no bracket of the list contains the age
SamplerCalls ==
    {SamplerCall("weighted_sample", rows, NoBracket, 0, << >>) :
        rows \in WeightedTables}
    \cup {SamplerCall("sample_age_from_bracket", << >>, b, 0, << >>) :
            b \in Brackets}
    \cup {SamplerCall("match_age_bracket", << >>, b, age, << >>) :
            b \in Brackets, age \in Ages}
    \cup {SamplerCall("get_age_bracket", << >>, b, age, brackets) :
            b \in ClosedBrackets, age \in Ages, brackets \in BracketLists}

\* a caller about to make one call of a function of sampler.py, no table
\* loaded
InitSampler ==
    /\ dist = Without(DOMAIN DistFull)
    /\ rng \in 0..(NumSamplerRng - 1)
    /\ pc = "idle"
    /\ args \in SamplerCalls
    /\ cur = << >>
    /\ households = << >>
    /\ remaining = 0
    /\ stagesRun = << >>
    /\ prev = [raised |-> FALSE, households |-> << >>]
    /\ calls = 0
    /\ nextId = 1

\* the call returns (cur holds the value returned) or raises
Returns(result) ==
    /\ rng' = result.rng
    /\ IF result.err
       THEN pc' = "raised" /\ cur' = << >>
       ELSE pc' = "done" /\ cur' = << result.v >>
    /\ calls' = calls + 1
    /\ UNCHANGED << dist, args, households, remaining, stagesRun, prev,
                    nextId >>

call_weighted_sample ==
    /\ pc = "idle"
    /\ args.op = "weighted_sample"
    /\ Returns(weighted_sample(args.rows, "weight", rng))

call_sample_age_from_bracket ==
    /\ pc = "idle"
    /\ args.op = "sample_age_from_bracket"
    /\ Returns(sample_age_from_bracket(args.bracket.text, rng))

call_match_age_bracket ==
    /\ pc = "idle"
    /\ args.op = "match_age_bracket"
    /\ Returns(Ok(match_age_bracket(args.age, args.bracket.text), rng))

call_get_age_bracket ==
    /\ pc = "idle"
    /\ args.op = "get_age_bracket"
    /\ Returns(Ok(get_age_bracket(args.age, args.brackets), rng))

NextSampler ==
    \/ call_weighted_sample
    \/ call_sample_age_from_bracket
    \/ call_match_age_bracket
    \/ call_get_age_bracket

SpecSampler == InitSampler /\ [][NextSampler]_vars


\* ------------------------------------------------------------------------
\* Properties
\* ------------------------------------------------------------------------
\* number of members of the household with the relationship
CountOf(h, relationship) ==
    Cardinality({k \in 1..Len(h.members) :
                    h.members[k].relationship = relationship})

\* C1: in every household that generate_household has returned,
\* adult_count() + child_count() equals len(members) and exactly one member
\* is the householder
C1_MembersPartitioned ==
    \A i \in 1..Len(households) :
        /\ adult_count(households[i]) + child_count(households[i])
             = Len(households[i].members)
        /\ CountOf(households[i], HOUSEHOLDER) = 1

\* C1 witness: generate_household has returned a household with two adults
\* and a child aged 17
C1_Witness ==
    /\ pc = "done"
    /\ args.op = "generate_household"
    /\ adult_count(households[1]) >= 2
    /\ \E k \in 1..Len(households[1].members) : households[1].members[k].age = 17


\* set of the elements of a sequence
Range(s) == {s[i] : i \in 1..Len(s)}

\* C2: when generate_household returns, the stages have run in the order
\* 1, 2, 3, 4, 5, each exactly once, so assign_expenses has run on the
\* household returned
C2_AllStagesBeforeReturn == pc = "return" => stagesRun = << 1, 2, 3, 4, 5 >>

\* the patterns C3 names
RequiringChildren ==
    {"married_couple_with_children", "single_parent", "blended_family"}

\* C3: once Stage 3 has run on a household of the pattern
\* married_couple_with_children, single_parent or blended_family, its
\* child_count() is at least 1, whatever children_by_parent_age holds
C3_RequiredChildren ==
    /\ (cur # << >> /\ 3 \in Range(stagesRun)
        /\ cur[1].pattern \in RequiringChildren) => child_count(cur[1]) >= 1
    /\ \A i \in 1..Len(households) :
          households[i].pattern \in RequiringChildren
              => child_count(households[i]) >= 1

\* C3 witness: Stage 3 has run on a single parent aged 18 to 65 for whom the
\* table can yield only 0 children
C3_Witness ==
    /\ pc = "stage4"
    /\ dist.children_by_parent_age = Table(ChildrenByParentAgeNone)
    /\ cur[1].pattern = "single_parent"
    /\ Youngest(get_adults(cur[1])).age <= 65
    /\ child_count(cur[1]) = 1


\* the age gaps C4 requires in a household
AgeGapsKept(h) ==
    \A k \in 1..Len(h.members) :
        /\ h.members[k].relationship \in {BIOLOGICAL_CHILD, STEPCHILD}
             => Youngest(get_adults(h)).age - h.members[k].age >= 14
        /\ h.members[k].relationship = GRANDCHILD
             => Oldest(get_adults(h)).age - h.members[k].age >= 28

\* C4: every biological child or stepchild is at least 14 years younger than
\* the youngest adult of its household, and every grandchild at least 28
\* years younger than the oldest adult
C4_AgeGaps ==
    /\ (cur # << >> /\ 3 \in Range(stagesRun)) => AgeGapsKept(cur[1])
    /\ \A i \in 1..Len(households) : AgeGapsKept(households[i])

\* C4 witness: Stage 3 has generated a grandchild exactly 28 years younger
\* than the oldest adult of its household
C4_Witness ==
    /\ pc = "stage4"
    /\ \E k \in 1..Len(cur[1].members) :
          /\ cur[1].members[k].relationship = GRANDCHILD
          /\ Oldest(get_adults(cur[1])).age - cur[1].members[k].age = 28


\* a value within 0 and a cap
Within(f, cap) == 0 <= f /\ f <= cap

\* C5 for one person: every income field within its cap, the benefit of an
\* unemployed adult (kept in wage_income) within the unemployment cap, and
\* total_income() the sum of the fields
IncomeBounded(p) ==
    /\ Within(p.wage_income, 500000)
    /\ Within(p.self_employment_income, 250000)
    /\ (is_adult(p) /\ p.employment_status = UNEMPLOYED)
          => Within(p.wage_income, 30000)
    /\ Within(p.social_security_income, 50000)
    /\ Within(p.retirement_income, 200000)
    /\ Within(p.interest_income, 100000)
    /\ Within(p.dividend_income, 100000)
    /\ Within(p.other_income, 50000)
    /\ Within(p.public_assistance_income, 15000)
    /\ total_income(p)
         = p.wage_income + p.self_employment_income
           + p.social_security_income + p.retirement_income
           + p.interest_income + p.dividend_income + p.other_income
           + p.public_assistance_income

\* C5 for one household
IncomesBounded(h) ==
    /\ \A k \in 1..Len(h.members) : IncomeBounded(h.members[k])
    /\ total_household_income(h)
         = SumSeq([k \in 1..Len(h.members) |-> total_income(h.members[k])])

\* C5: after Stage 4 every income field of every person lies within 0 and
\* the cap of its source, total_income() is the sum of the person's fields
\* and total_household_income() the sum of total_income() over the members
C5_IncomeWithinCaps ==
    /\ (cur # << >> /\ 4 \in Range(stagesRun)) => IncomesBounded(cur[1])
    /\ \A i \in 1..Len(households) : IncomesBounded(households[i])

\* C5 witness: Stage 4 has assigned the householder of a household of three
\* or more a public assistance income equal to its cap
C5_Witness ==
    /\ pc = "return"
    /\ Len(cur[1].members) >= 3
    /\ \E k \in 1..Len(cur[1].members) :
          cur[1].members[k].public_assistance_income = 15000


\* C6: a call of generate_household or generate_batch repeated on the same
\* tables with the same seed, complexity, pattern, state and year ends as the
\* call before it did: the same households, in pattern, sub-pattern, number
\* and order of members and every sampled field of every member
C6_SameSeedSameHouseholds ==
    (calls >= 2 /\ pc \in {"done", "raised"} /\ args.seed # NoSeed
     /\ stagesRun # << 1, 2, 3, 4, 5 >>)
        => Outcome = prev

\* C6 witness: a seeded generate_batch has been repeated and has returned two
\* households, the first of three members or more
C6_Witness ==
    /\ calls = 2
    /\ pc = "done"
    /\ args.op = "generate_batch"
    /\ args.seed # NoSeed
    /\ Len(households) = 2
    /\ Len(households[1].members) >= 3
    /\ Outcome = prev


\* rows of household_patterns whose pattern has the complexity asked for,
\* every row when none is asked for
Candidates ==
    SelectSeq(dist.household_patterns.rows,
        LAMBDA row : Given(args.complexity)
                        => Metadata(row.pattern).complexity = args.complexity)

\* there are candidate rows and their weights are all zero
ZeroWeights ==
    /\ Len(Candidates) > 0
    /\ \A i \in 1..Len(Candidates) : Candidates[i].weight = 0

\* no Household exists in the call and no stage has run
NoHousehold ==
    /\ pc \in {"stage1", "raised"}
    /\ cur = << >>
    /\ households = << >>
    /\ stagesRun = << >>

\* C7 as stated: whenever household_patterns is absent or empty, or the
\* weights of the candidates are all zero, with or without a forced pattern,
\* generate_stage1 raises, no Household is created and no later stage runs
C7_MissingDataRaises ==
    (pc # "idle"
     /\ (~dist.household_patterns.present
         \/ Len(dist.household_patterns.rows) = 0
         \/ ZeroWeights))
        => NoHousehold

\* C7 amended: whenever household_patterns is absent or empty, for every
\* combination of the arguments, or no pattern is forced and the weights of
\* the candidates are all zero, generate_stage1 raises, no Household is
\* created and no later stage runs
C7_MissingDataRaisesUnlessForced ==
    (pc # "idle"
     /\ (~dist.household_patterns.present
         \/ Len(dist.household_patterns.rows) = 0
         \/ (~Given(args.pattern) /\ ZeroWeights)))
        => NoHousehold

\* C7 witness: generate_stage1 has raised on a table whose complex patterns
\* all weigh zero while a simple pattern has weight
C7_Witness ==
    /\ pc = "raised"
    /\ dist.household_patterns = Table(HouseholdPatternsNoMedium)
    /\ args.pattern = None
    /\ args.complexity = "complex"
    /\ NoHousehold


\* the forced pattern names no row of household_patterns
UnknownPattern ==
    /\ Given(args.pattern)
    /\ \A i \in 1..Len(dist.household_patterns.rows) :
          dist.household_patterns.rows[i].pattern # args.pattern

\* a complexity is asked for that the pattern of no row has
NoRowOfComplexity ==
    /\ Given(args.complexity)
    /\ \A i \in 1..Len(dist.household_patterns.rows) :
          Metadata(dist.household_patterns.rows[i].pattern).complexity
              # args.complexity

\* generate_stage1 raises at once: no draw from the random source and no
\* Household
RaisesAtOnce ==
    /\ pc' = "raised"
    /\ rng' = rng
    /\ cur' = << >>
    /\ stagesRun' = << >>

\* C8 as stated: generate_stage1 raises before any random draw and without
\* creating a Household when the forced pattern is not in household_patterns
\* or when a complexity is asked for that no row's pattern has
C8_InvalidRequestRaises ==
    [][(generate_stage1 /\ (UnknownPattern \/ NoRowOfComplexity))
          => RaisesAtOnce]_vars

\* C8 amended: generate_stage1 raises before any random draw and without
\* creating a Household when the forced pattern is not in household_patterns,
\* or when no pattern is forced and a complexity is asked for that no row's
\* pattern has
C8_InvalidRequestRaisesUnlessForced ==
    [][(generate_stage1
        /\ (UnknownPattern \/ (~Given(args.pattern) /\ NoRowOfComplexity)))
          => RaisesAtOnce]_vars

\* C8 witness: generate_stage1 has raised on a table that has rows with
\* weight but none of the complexity asked for, no pattern being forced
C8_Witness ==
    /\ pc = "raised"
    /\ dist.household_patterns = Table(HouseholdPatternsNoMedium)
    /\ args.pattern = None
    /\ args.complexity = "medium"
    /\ cur = << >>


\* C9: once Stage 1 has accepted a pattern, Stages 2, 3, 4 and 5 run to
\* completion without raising, whichever of the optional tables are absent:
\* a call ends by raising only in Stage 1, before any stage has run
C9_StagesNeverRaise == pc = "raised" => stagesRun = << >>

\* all five stages have run on a household of three or more members over a
\* database that holds the required table only
C9_Witness ==
    /\ pc = "done"
    /\ dist = Without(OptionalTables)
    /\ stagesRun = << 1, 2, 3, 4, 5 >>
    /\ Len(households[1].members) >= 3
    /\ child_count(households[1]) >= 1


RelationshipsOf(members) ==
    [i \in 1..Len(members) |-> members[i].relationship]

FixedComposition ==
    {"single_adult", "single_parent", "married_couple_no_children",
     "married_couple_with_children", "blended_family", "unmarried_partners"}

FixedRelationships(pattern) ==
    IF pattern \in {"single_adult", "single_parent"}
    THEN << HOUSEHOLDER >>
    ELSE IF pattern = "unmarried_partners"
    THEN << HOUSEHOLDER, UNMARRIED_PARTNER >>
    ELSE << HOUSEHOLDER, SPOUSE >>

\* the household has the adults of its pattern, in order, and a married
\* couple without children has nobody else
ComposedAsFixed(h) ==
    h.pattern \in FixedComposition =>
        /\ RelationshipsOf(get_adults(h)) = FixedRelationships(h.pattern)
        /\ adult_count(h) = Len(FixedRelationships(h.pattern))
        /\ h.pattern = "married_couple_no_children" =>
              child_count(h) = 0 /\ Len(h.members) = 2

\* C10: for the fixed-composition patterns Stage 2 returns exactly the
\* pattern's relationship list, in order ([householder]; [householder, spouse];
\* [householder, unmarried_partner]), so single_parent has exactly one adult
\* and married_couple_no_children exactly two adults and, after Stage 3, no
\* children
C10_FixedCompositionRelationships ==
    /\ (pc = "stage3" /\ cur[1].pattern \in FixedComposition) =>
          RelationshipsOf(cur[1].members) = FixedRelationships(cur[1].pattern)
    /\ pc \in {"stage4", "return"} => ComposedAsFixed(cur[1])
    /\ \A i \in 1..Len(households) : ComposedAsFixed(households[i])

\* a batch returned a married couple without children and then an unmarried
\* couple with a child, each with the adults of its pattern
C10_Witness ==
    /\ pc = "done"
    /\ Len(households) = 2
    /\ households[1].pattern = "married_couple_no_children"
    /\ RelationshipsOf(households[1].members) = << HOUSEHOLDER, SPOUSE >>
    /\ households[2].pattern = "unmarried_partners"
    /\ child_count(households[2]) >= 1
    /\ RelationshipsOf(get_adults(households[2]))
          = << HOUSEHOLDER, UNMARRIED_PARTNER >>


\* C11: every person generate_adults returns is aged 18 or more, so after
\* Stage 2 get_adults() is exactly the Stage 2 list and its first element is
\* the householder, for every pattern and every set of brackets in
\* employment_by_age
C11_AdultsAreOfAge ==
    pc = "stage3" =>
        /\ Len(cur[1].members) >= 1
        /\ \A i \in 1..Len(cur[1].members) : cur[1].members[i].age >= 18
        /\ get_adults(cur[1]) = cur[1].members
        /\ get_adults(cur[1])[1].relationship = HOUSEHOLDER
        /\ get_householder(cur[1]) = << cur[1].members[1] >>

\* Stage 2 has produced an 'other' household with a relative aged 18, from a
\* table that holds the youngest bracket only
C11_Witness ==
    /\ pc = "stage3"
    /\ cur[1].pattern = "other"
    /\ dist.employment_by_age = Table(EmploymentOfBrackets({<<"1", "8", "-", "2", "4">>}))
    /\ \E i \in 2..Len(cur[1].members) :
          /\ cur[1].members[i].relationship = OTHER_RELATIVE
          /\ cur[1].members[i].age = 18


\* C12: weighted_sample returns only rows whose weight is strictly positive;
\* over a table with exactly one row of positive weight it always returns that
\* row; and it raises, without drawing from the random source, when the table
\* is empty or the weights sum to zero
C12_WeightedSamplePositiveRows ==
    [][call_weighted_sample =>
        LET positive == SelectSeq(args.rows, LAMBDA row : row.weight > 0)
        IN  IF args.rows = << >> \/ SumSeq(Column(args.rows, "weight")) = 0
            THEN pc' = "raised" /\ rng' = rng
            ELSE /\ pc' = "done"
                 /\ \E i \in 1..Len(args.rows) : cur'[1] = args.rows[i]
                 /\ cur'[1].weight > 0
                 /\ Len(positive) = 1 => cur'[1] = positive[1]]_vars

\* the second of three rows, the only one of positive weight, was returned
C12_Witness ==
    /\ pc = "done"
    /\ args.op = "weighted_sample"
    /\ Column(args.rows, "weight") = << 0, 2, 0 >>
    /\ cur = << args.rows[2] >>
    /\ rng # 0


\* C13: for every closed bracket 'A-B' with A <= B and every open-low bracket
\* '<N' with N >= 1, every value sample_age_from_bracket returns satisfies
\* match_age_bracket: it lies in [A, B], respectively in [0, N)
C13_SampledAgeInBracket ==
    [][(call_sample_age_from_bracket
            /\ args.bracket.shape \in {"closed", "open_low"}) =>
        /\ pc' = "done"
        /\ args.bracket.lo <= cur'[1] /\ cur'[1] <= args.bracket.hi
        /\ match_age_bracket(cur'[1], args.bracket.text)]_vars

\* the upper end of a closed bracket was drawn
C13_Witness ==
    /\ pc = "done"
    /\ args.op = "sample_age_from_bracket"
    /\ args.bracket.text = << "1", "8", "-", "2", "4" >>
    /\ cur = << 24 >>


\* C14: for a bracket that matches none of the four shapes, match_age_bracket
\* returns true and sample_age_from_bracket returns a value instead of raising
C14_UnparseableBracketsDegrade ==
    [][/\ (call_match_age_bracket /\ args.bracket.shape = "none") =>
              cur' = << TRUE >>
       /\ (call_sample_age_from_bracket /\ args.bracket.shape = "none") =>
              pc' = "done"]_vars


\* C15: get_age_bracket(age, brackets) returns the first bracket, in list
\* order, that contains the age; when no bracket of the list contains the age
\* it returns the default supplied by the caller
C15_FirstContainingBracket ==
    [][call_get_age_bracket =>
        LET containing == {i \in 1..Len(args.brackets) :
                              match_age_bracket(args.age, args.brackets[i])}
        IN  /\ pc' = "done"
            /\ containing # {} =>
                  \E i \in containing :
                      /\ cur'[1] = args.brackets[i]
                      /\ \A j \in containing : i <= j
            /\ containing = {} => cur'[1] = args.bracket.text]_vars


\* every member of the household under construction and of the households
\* already returned
MembersInState ==
    UNION ({Range(cur[i].members) : i \in 1..Len(cur)}
           \cup {Range(households[i].members) : i \in 1..Len(households)})

\* C16: in every state of every household, every member, adult or child, has
\* occupation_code and occupation_title both null unless the member's
\* employment_status is 'employed'
C16_OccupationOnlyForEmployed ==
    \A m \in MembersInState :
        m.employment_status # EMPLOYED =>
            /\ m.occupation_code = NoOccupation
            /\ m.occupation_title = None

\* a household holds an employed adult with an occupation, an adult out of work
\* without one, and a child of working age without one
C16_Witness ==
    /\ pc = "done"
    /\ \E h \in Range(households) :
        /\ \E m \in Range(get_adults(h)) :
              m.employment_status = EMPLOYED /\ m.occupation_code # NoOccupation
        /\ \E m \in Range(get_adults(h)) :
              m.employment_status # EMPLOYED /\ m.occupation_code = NoOccupation
        /\ \E m \in Range(get_children(h)) :
              /\ m.age >= 14
              /\ m.employment_status = NOT_IN_LABOR_FORCE
              /\ m.occupation_code = NoOccupation


\* the households of the state: the one under construction and those returned
HouseholdsInState == Range(cur) \cup Range(households)

\* the sub-pattern is null off the multigenerational pattern and, on it, null
\* until Stage 2 has run and set from then on
SubPatternSetByStage2 ==
    /\ \A h \in HouseholdsInState :
          h.pattern # "multigenerational"
              => h.multigenerational_subpattern = None
    /\ \A h \in Range(cur) :
          h.pattern = "multigenerational" =>
              (h.multigenerational_subpattern = None <=> pc = "stage2")

\* the children Stage 3 appends to the household
ChildrenAdded ==
    SubSeq(cur'[1].members, Len(cur[1].members) + 1, Len(cur'[1].members))

\* the child relationships the stored sub-pattern calls for
MixOfSubPattern(sub_pattern, children) ==
    LET grandchildren ==
            Len(SelectSeq(children, LAMBDA c : c.relationship = GRANDCHILD))
    IN  IF sub_pattern = "grandparent_with_grandchildren"
        THEN Len(children) >= 1 /\ grandchildren = Len(children)
        ELSE IF sub_pattern = "four_generations"
        THEN /\ Len(children) >= 1
             /\ \A c \in Range(children) :
                   c.relationship \in {BIOLOGICAL_CHILD, GRANDCHILD}
             /\ Len(children) >= 2
                   => grandchildren = Max(1, Len(children) \div 2)
        ELSE \A c \in Range(children) : c.relationship = BIOLOGICAL_CHILD

\* C17: multigenerational_subpattern is null in every state of a household
\* whose pattern is not multigenerational; on a multigenerational household it
\* is null after Stage 1 and set after Stage 2, with or without the
\* multigenerational_patterns table; Stage 3 takes the minimum child count and
\* the child relationship mix from that stored value and leaves it unchanged
C17_SubPatternThreaded ==
    /\ []SubPatternSetByStage2
    /\ [][(generate_stage3 /\ pc' = "stage4"
           /\ cur[1].pattern = "multigenerational") =>
            /\ cur'[1].multigenerational_subpattern
                  = cur[1].multigenerational_subpattern
            /\ MixOfSubPattern(cur[1].multigenerational_subpattern,
                               ChildrenAdded)]_vars

\* Stage 3 has given grandchildren to a household whose sub-pattern Stage 2
\* drew from the table
C17_Witness ==
    /\ pc = "stage4"
    /\ Usable(dist.multigenerational_patterns)
    /\ cur[1].pattern = "multigenerational"
    /\ cur[1].multigenerational_subpattern = "four_generations"
    /\ Len(get_children(cur[1])) >= 2

\* Stage 3 has run on a household whose sub-pattern Stage 2 set without the
\* multigenerational_patterns table
C17_WitnessWithoutTable ==
    /\ pc = "stage4"
    /\ ~Usable(dist.multigenerational_patterns)
    /\ cur[1].pattern = "multigenerational"
    /\ cur[1].multigenerational_subpattern = "adult_with_parent"
    /\ Len(get_children(cur[1])) >= 1


\* ------------------------------------------------------------------------
\* api: POST /api/v1/households/generate
\* ------------------------------------------------------------------------
\* bounds of GenerateHouseholdsRequest.count (Field ge / le)
COUNT_GE == 1

COUNT_LE == 100

\* Settings.max_households_per_request by default
MAX_HOUSEHOLDS_PER_REQUEST == 100

\* max_households_per_request of the settings the tests install
TEST_MAX_HOUSEHOLDS_PER_REQUEST == 10

\* counts a client may send, on both sides of the limits
RequestCounts == {0, 1, 2, 3, 10, 11, 12, 101, 500}

ApiSettings ==
    {[max_households_per_request |-> limit] :
        limit \in {2, TEST_MAX_HOUSEHOLDS_PER_REQUEST,
                   MAX_HOUSEHOLDS_PER_REQUEST}}

ApiRequests ==
    {[count |-> count, seed |-> seed] : count \in RequestCounts, seed \in Seeds}

\* the response: status code, whether the body has a 'detail' entry, and the
\* households of the body
Response(status_code, detail, body) ==
    [status_code |-> status_code, detail |-> detail, households |-> body]

\* the fields of a household that the response carries
HouseholdSummary(household) ==
    [household_id |-> household.household_id, pattern |-> household.pattern,
     state |-> household.state, year |-> household.year,
     expected_adults |-> household.expected_adults,
     expected_children_range |-> household.expected_children_range,
     expected_complexity |-> household.expected_complexity]

\* validation of the request body against GenerateHouseholdsRequest, which
\* the framework runs before it calls the endpoint function
ValidRequest(request) ==
    request.count >= COUNT_GE /\ request.count <= COUNT_LE

\* the loop of generate_households from household i on: seed + i is set
\* before each household when a seed is given, then Stage 1 runs
RECURSIVE generate_summaries(_, _, _)
generate_summaries(i, request, r) ==
    IF i >= request.count THEN Ok(<< >>, r)
    ELSE Then(select_pattern(dist.household_patterns, None, None,
                             IF request.seed # NoSeed
                             THEN set_random_seed(request.seed[1] + i)
                             ELSE r),
           LAMBDA selected :
             Then(generate_summaries(i + 1, request, selected.rng),
               LAMBDA rest :
                 Ok(<< HouseholdSummary(
                          stage1_household(selected.v, i + 1, "HI", 2023)) >>
                    \o rest.v, rest.rng)))

\* the answer to a request: 422 from validation, 400 over the configured
\* limit, 404 when Stage 1 raises ValueError, else 200 with the households
generate_households(request, settings, r) ==
    IF ~ValidRequest(request)
    THEN Ok(Response(422, TRUE, << >>), r)
    ELSE IF request.count > settings.max_households_per_request
    THEN Ok(Response(400, TRUE, << >>), r)
    ELSE With(generate_summaries(0, request, r), LAMBDA generated :
           IF generated.err
           THEN Ok(Response(404, TRUE, << >>), generated.rng)
           ELSE Ok(Response(200, FALSE, generated.v), generated.rng))

ApiCalls ==
    {[op |-> "post_generate_households", request |-> request,
      settings |-> settings] :
        request \in ApiRequests, settings \in ApiSettings}

\* a server whose tables are loaded, about to receive one request
InitApi ==
    /\ dist \in {[Without(DOMAIN DistFull) EXCEPT !.household_patterns = t] :
                    t \in PatternTables \cup {DistFull.household_patterns}}
    /\ rng \in 0..(NumInitRng - 1)
    /\ pc = "idle"
    /\ args \in ApiCalls
    /\ cur = << >>
    /\ households = << >>
    /\ remaining = 0
    /\ stagesRun = << >>
    /\ prev = [raised |-> FALSE, households |-> << >>]
    /\ calls = 0
    /\ nextId = 1

\* the request is answered: cur holds the response
post_generate_households ==
    /\ pc = "idle"
    /\ args.op = "post_generate_households"
    /\ LET response == generate_households(args.request, args.settings, rng)
       IN  /\ cur' = << response.v >>
           /\ households' = response.v.households
           /\ rng' = response.rng
    /\ pc' = "done"
    /\ calls' = calls + 1
    /\ UNCHANGED << dist, args, remaining, stagesRun, prev, nextId >>

NextApi == post_generate_households

SpecApi == InitApi /\ [][NextApi]_vars

\* C18: a POST to /api/v1/households/generate whose count exceeds the
\* configured max_households_per_request is answered with status 400 and a
\* body holding 'detail', and no household is generated, for every count above
\* the limit (count 500 with limit 10 for one)
C18_OverLimitAnswered400 ==
    [][(post_generate_households
        /\ args.request.count > args.settings.max_households_per_request) =>
            /\ cur'[1].status_code = 400
            /\ cur'[1].detail
            /\ households' = << >>]_vars


\* ------------------------------------------------------------------------
\* a seeded batch followed by a shorter call with the same arguments
\* ------------------------------------------------------------------------
\* after a seeded generate_batch has returned, the caller asks again with the
\* same seed, complexity and pattern: for one household, or for a batch of at
\* most as many households
call_prefix ==
    /\ pc = "done"
    /\ calls < MaxCalls
    /\ args.op = "generate_batch"
    /\ args.seed # NoSeed
    /\ stagesRun # << 1, 2, 3, 4, 5 >>
    /\ prev' = Outcome
    /\ \/ StartCall([args EXCEPT !.op = "generate_household", !.count = 1])
       \/ \E count \in 1..args.count : StartCall([args EXCEPT !.count = count])

NextPrefix ==
    \/ generate_batch
    \/ generate_stage1
    \/ generate_stage2
    \/ generate_stage3
    \/ generate_stage4
    \/ return_household
    \/ call_prefix

SpecPrefix == InitRepeat /\ [][NextPrefix]_vars

\* C19: generate_batch(count, seed=s) seeds the random source once, before
\* the first household, and not between households; it returns count
\* households generated one after the other, so that the first k households
\* of generate_batch(n, seed=s) are those of generate_batch(k, seed=s), and
\* the first is, in its sampled values, the one generate_household(seed=s) gives
C19_BatchSeededOnce ==
    /\ [](pc = "done" => Len(households) = args.count)
    /\ [](calls >= 2 =>
            /\ pc # "raised"
            /\ pc = "done" =>
                  Outcome.households = Take(prev.households, args.count))
    /\ [][generate_batch =>
            rng' = IF args'.seed # NoSeed THEN set_random_seed(args'.seed[1])
                   ELSE rng]_vars
    /\ [][return_household => rng' = rng]_vars

\* a seeded batch of two households has returned, and so has the single
\* household asked for afterwards with the same seed
C19_Witness ==
    /\ calls = 2
    /\ pc = "done"
    /\ args.op = "generate_household"
    /\ Len(prev.households) = 2
    /\ Len(prev.households[1].members) >= 3
    /\ Outcome.households = << prev.households[1] >>
    /\ prev.households[2] # prev.households[1]

\* a seeded batch of two households has returned, and so has the batch of one
\* asked for afterwards with the same seed
C19_WitnessShorterBatch ==
    /\ calls = 2
    /\ pc = "done"
    /\ args.op = "generate_batch"
    /\ args.count = 1
    /\ Len(prev.households) = 2
    /\ Outcome.households = << prev.households[1] >>


\* the adult count Stage 2 resolves for the household it is about to fill
ResolvedAdultCount ==
    determine_adult_count(Metadata(cur[1].pattern), rng).v

\* C20: for every pattern, the number of adults Stage 2 returns is the adult
\* count resolved by _determine_adult_count and lies within the expected
\* adult count or range of the pattern; a multigenerational household has
\* between 2 and 4 adults for every count drawn and every sub-pattern of the
\* multigenerational_patterns table
C20_AdultCountAsResolved ==
    [][(generate_stage2 /\ pc' = "stage3") =>
        /\ Len(cur'[1].members) = ResolvedAdultCount
        /\ Len(cur'[1].members)
              >= Metadata(cur[1].pattern).expected_adults.lo
        /\ Len(cur'[1].members)
              <= Metadata(cur[1].pattern).expected_adults.hi
        /\ cur[1].pattern = "multigenerational"
              => Len(cur'[1].members) \in 2..4]_vars


\* C21: Stage 3 appends no children when the pattern does not support children
\* (married_couple_no_children, single_adult, other, or a name unknown to the
\* metadata); otherwise the number of children it appends lies within the
\* expected child-count range of the pattern, whatever num_children the table
\* yields, and every appended person has an age in 0..17
C21_ChildrenWithinPatternRange ==
    [][(generate_stage3 /\ pc' = "stage4") =>
        /\ IF cur[1].pattern \in {"married_couple_no_children", "single_adult",
                                  "other"}
              \/ cur[1].pattern \notin KnownPatterns
           THEN ChildrenAdded = << >>
           ELSE /\ Len(ChildrenAdded)
                      >= Metadata(cur[1].pattern).expected_children[1]
                /\ Len(ChildrenAdded)
                      <= Metadata(cur[1].pattern).expected_children[2]
        /\ \A c \in Range(ChildrenAdded) : c.age \in 0..17]_vars

\* Stage 3 has appended as many children as the pattern's range allows
C21_Witness ==
    /\ pc = "stage4"
    /\ cur[1].pattern \in PATTERNS_WITH_CHILDREN
    /\ Len(get_children(cur[1]))
          = Metadata(cur[1].pattern).expected_children[2]
    /\ \E c \in Range(get_children(cur[1])) : c.age > 0


\* the number of children in the list having the relationship
ChildrenRelated(children, relationship) ==
    Len(SelectSeq(children, LAMBDA c : c.relationship = relationship))

\* C22: the children Stage 3 appends are all biological_child for every
\* pattern other than blended_family and multigenerational; for blended_family
\* all biological_child, all stepchild, or a mix with at least one of each;
\* for multigenerational all grandchild under the stored sub-pattern
\* grandparent_with_grandchildren, all biological_child under adult_with_parent,
\* and under four_generations with two or more children at least one
\* biological_child and at least one grandchild; there are exactly
\* num_children of them
C22_ChildRelationshipMix ==
    [][(generate_stage3 /\ pc' = "stage4") =>
        LET n == Len(ChildrenAdded)
            bio == ChildrenRelated(ChildrenAdded, BIOLOGICAL_CHILD)
            step == ChildrenRelated(ChildrenAdded, STEPCHILD)
            grand == ChildrenRelated(ChildrenAdded, GRANDCHILD)
            sub == cur[1].multigenerational_subpattern
        IN  /\ cur[1].pattern \in PATTERNS_WITH_CHILDREN =>
                  n = determine_child_count(cur[1], get_adults(cur[1]), rng).v
            /\ cur[1].pattern \notin {"blended_family", "multigenerational"}
                  => bio = n
            /\ cur[1].pattern = "blended_family" =>
                  \/ bio = n
                  \/ step = n
                  \/ bio >= 1 /\ step >= 1 /\ bio + step = n
            /\ cur[1].pattern = "multigenerational" =>
                  /\ sub = "grandparent_with_grandchildren" => grand = n
                  /\ sub = "adult_with_parent" => bio = n
                  /\ (sub = "four_generations" /\ n >= 2) =>
                        bio >= 1 /\ grand >= 1 /\ bio + grand = n]_vars

\* Stage 3 has given a blended family children of both kinds
C22_Witness ==
    /\ pc = "stage4"
    /\ cur[1].pattern = "blended_family"
    /\ ChildrenRelated(get_children(cur[1]), BIOLOGICAL_CHILD) >= 1
    /\ ChildrenRelated(get_children(cur[1]), STEPCHILD) >= 1


\* the couple type of a couple-based pattern
CoupleTypeExpected(pattern) ==
    IF pattern = "unmarried_partners" THEN "unmarried" ELSE "married"

\* rows of couple_sex_patterns of the couple type
CoupleRows(couple_type) ==
    SelectSeq(dist.couple_sex_patterns.rows,
              LAMBDA row : row.couple_type = couple_type)

\* C23: when couple_sex_patterns has rows for the couple type, then in every
\* couple-based household (married for married_couple_no_children,
\* married_couple_with_children and blended_family, unmarried for
\* unmarried_partners) the pair of the householder's sex and the spouse's or
\* partner's sex is the two halves of one sex_pattern row of that couple type
C23_CoupleSexesFromOneRow ==
    (/\ pc \in {"stage3", "stage4", "return"}
     /\ cur[1].pattern \in CouplePatterns
     /\ Usable(dist.couple_sex_patterns)
     /\ CoupleRows(CoupleTypeExpected(cur[1].pattern)) # << >>)
        => \E row \in Range(CoupleRows(CoupleTypeExpected(cur[1].pattern))) :
              row.sex_pattern
                  = cur[1].members[1].sex \o << "_" >> \o cur[1].members[2].sex


\* C24: every member with relationship parent in a multigenerational
\* household has age min(95, householder.age + d) for some offset d in 18..40;
\* hence the parent is at most 95 and at least 18 years older than the
\* householder, for every householder age the multigenerational window
\* (30..75) allows
C24_ParentOlderThanHouseholder ==
    \A h \in HouseholdsInState :
        (h.pattern = "multigenerational" /\ Len(h.members) > 0) =>
            /\ h.members[1].relationship = HOUSEHOLDER
            /\ h.members[1].age \in 30..75
            /\ \A m \in Range(h.members) :
                  m.relationship = PARENT =>
                      /\ \E d \in 18..40 :
                            m.age = Min(95, h.members[1].age + d)
                      /\ m.age <= 95
                      /\ m.age >= h.members[1].age + 18

\* a multigenerational household holds a parent thirty years or more older
\* than its householder
C24_Witness ==
    /\ pc = "stage3"
    /\ cur[1].pattern = "multigenerational"
    /\ \E m \in Range(cur[1].members) :
          /\ m.relationship = PARENT
          /\ m.age < 95
          /\ m.age - cur[1].members[1].age >= 30


\* C25: after Stage 4 an adult whose employment_status is not 'employed' has
\* wage_income 0, the unemployment benefit being a separate source of income
\* that is never recorded as wage income
C25_NoWageUnlessEmployed ==
    \A h \in Range(households) \cup (IF pc = "return" THEN Range(cur) ELSE {}) :
        \A m \in Range(get_adults(h)) :
            m.employment_status # EMPLOYED => m.wage_income = 0


\* households on which Stage 4 has run
HouseholdsWithIncome ==
    Range(households) \cup (IF pc = "return" THEN Range(cur) ELSE {})

\* C26: after Stage 4, public_assistance_income is 0 for every member other
\* than the householder, and the householder's is non-zero only if the total
\* income of the household before assistance, every member's other income
\* assigned, is strictly below 1.5 x (14580 + 5140 x (household size - 1))
C26_PublicAssistanceMeansTested ==
    \A h \in HouseholdsWithIncome :
        \A m \in Range(h.members) :
            /\ m.relationship # HOUSEHOLDER => m.public_assistance_income = 0
            /\ (m.relationship = HOUSEHOLDER /\ m.public_assistance_income # 0)
                  => 2 * (total_household_income(h)
                          - m.public_assistance_income)
                       < 3 * (14580 + 5140 * (Len(h.members) - 1))

\* the householder of a household of three or more has received assistance,
\* other members having income of their own
C26_Witness ==
    /\ pc = "return"
    /\ Len(cur[1].members) >= 3
    /\ cur[1].members[1].public_assistance_income > 0
    /\ total_household_income(cur[1])
          > total_income(cur[1].members[1])


\* the household Stage 5 has been applied to
Expensed == households[Len(households)]

\* C27: after assign_expenses, total_itemized_deductions is
\* min(property_taxes + state_income_tax, 10000) + mortgage_interest
\* + max(0, medical_expenses - floor(0.075 x total_household_income))
\* + charitable_contributions, and total_above_line_deductions is the sum over
\* the adult members of student_loan_interest + educator_expenses
\* + ira_contributions, members under 18 contributing 0
C27_DeductionTotals ==
    (pc = "done" /\ stagesRun = << 1, 2, 3, 4, 5 >>) =>
        /\ Expensed.total_itemized_deductions
              = Min(Expensed.property_taxes + Expensed.state_income_tax, 10000)
                + Expensed.mortgage_interest
                + Max(0, Expensed.medical_expenses
                         - (3 * total_household_income(Expensed)) \div 40)
                + Expensed.charitable_contributions
        /\ Expensed.total_above_line_deductions
              = SumSeq([i \in 1..Len(get_adults(Expensed)) |->
                          get_adults(Expensed)[i].student_loan_interest
                          + get_adults(Expensed)[i].educator_expenses
                          + get_adults(Expensed)[i].ira_contributions])
        /\ \A m \in Range(get_children(Expensed)) :
              /\ m.student_loan_interest = 0
              /\ m.educator_expenses = 0
              /\ m.ira_contributions = 0

\* Stage 5 has capped the state and local taxes of a household with children
\* whose adults have deductions above the line
C27_Witness ==
    /\ pc = "done"
    /\ stagesRun = << 1, 2, 3, 4, 5 >>
    /\ Expensed.property_taxes + Expensed.state_income_tax > 10000
    /\ Expensed.total_above_line_deductions > 0
    /\ get_children(Expensed) # << >>


\* the bracket schedule of the filing status the pattern implies
ScheduleImplied(pattern) ==
    IF pattern \in {"married_couple_no_children",
                    "married_couple_with_children", "blended_family"}
    THEN HAWAII_TAX_BRACKETS_MFJ
    ELSE HAWAII_TAX_BRACKETS_SINGLE

\* C28: Stage 5 computes state_income_tax with the joint-filing schedule for
\* every pattern that implies a married couple (married_couple_no_children,
\* married_couple_with_children, blended_family) and with the single schedule
\* for every other pattern: the progressive sum over the brackets of the income
\* falling in the bracket times its rate, truncated to an integer, 0 for
\* income 0
C28_TaxScheduleByPattern ==
    (pc = "done" /\ stagesRun = << 1, 2, 3, 4, 5 >>) =>
        /\ Expensed.state_income_tax
              = ProgressiveTax(total_household_income(Expensed),
                               ScheduleImplied(Expensed.pattern), 0) \div 10000
        /\ total_household_income(Expensed) = 0
              => Expensed.state_income_tax = 0


\* C29: when generate_stage1 succeeds, the household returned has no members
\* and carries the static metadata of its pattern, and the pattern satisfies
\* the request: it is the forced pattern when one is given, whatever the row
\* weights and the complexity argument; otherwise it is the pattern of a row
\* of household_patterns of positive weight, and of the complexity asked for
\* when one is asked for
C29_Stage1SatisfiesRequest ==
    [][(generate_stage1 /\ pc' = "stage2") =>
        LET household == cur'[1]
        IN  /\ household.members = << >>
            /\ household.expected_adults
                  = Metadata(household.pattern).expected_adults.lo
            /\ household.expected_children_range
                  = Metadata(household.pattern).expected_children
            /\ household.expected_complexity
                  = Metadata(household.pattern).complexity
            /\ IF Given(args.pattern)
               THEN household.pattern = args.pattern
               ELSE /\ \E row \in Range(dist.household_patterns.rows) :
                          row.pattern = household.pattern /\ row.weight > 0
                    /\ Given(args.complexity) =>
                          Metadata(household.pattern).complexity
                              = args.complexity]_vars

\* Stage 1 has returned a forced pattern whose complexity is not the one
\* asked for
C29_Witness ==
    /\ pc = "stage2"
    /\ Given(args.pattern)
    /\ Given(args.complexity)
    /\ cur[1].pattern = args.pattern
    /\ cur[1].expected_complexity # args.complexity
    /\ cur[1].members = << >>


\* what Stage 1 fixes in a household: pattern, identity, state and year, and
\* the metadata of the pattern
Stage1Fields(household) ==
    [household_id |-> household.household_id, state |-> household.state,
     year |-> household.year, pattern |-> household.pattern,
     expected_adults |-> household.expected_adults,
     expected_children_range |-> household.expected_children_range,
     expected_complexity |-> household.expected_complexity]

\* a member with its income fields blanked
WithoutIncome(person) ==
    [person EXCEPT !.wage_income = 0, !.self_employment_income = 0,
                   !.social_security_income = 0, !.retirement_income = 0,
                   !.interest_income = 0, !.dividend_income = 0,
                   !.other_income = 0, !.public_assistance_income = 0]

\* a member with its deduction fields blanked
WithoutDeductions(person) ==
    [person EXCEPT !.student_loan_interest = 0, !.educator_expenses = 0,
                   !.ira_contributions = 0]

\* a household with its expense and deduction fields blanked, and those of
\* its members
WithoutExpenses(household) ==
    [household EXCEPT
       !.property_taxes = 0, !.mortgage_interest = 0, !.state_income_tax = 0,
       !.medical_expenses = 0, !.charitable_contributions = 0,
       !.student_loan_interest = 0, !.educator_expenses = 0,
       !.ira_contributions = 0, !.child_care_expenses = 0,
       !.education_expenses = 0, !.total_itemized_deductions = 0,
       !.total_above_line_deductions = 0,
       !.members = [i \in 1..Len(household.members) |->
                       WithoutDeductions(household.members[i])]]

\* C30: after Stage 1 the pattern, identity, state, year and pattern metadata
\* of a household never change; Stage 3 only appends members, leaving the
\* adults as they are and where they are; Stage 4 changes only income fields;
\* Stage 5 changes only expense and deduction fields, so that membership,
\* ages, relationships and total_household_income are the same after it
C30_StagesKeepEarlierFields ==
    [][/\ pc \in {"stage2", "stage3", "stage4"}
            => Stage1Fields(cur'[1]) = Stage1Fields(cur[1])
       /\ pc = "return"
            => Stage1Fields(households'[Len(households')])
                  = Stage1Fields(cur[1])
       /\ pc = "stage3"
            => /\ Len(cur'[1].members) >= Len(cur[1].members)
               /\ SubSeq(cur'[1].members, 1, Len(cur[1].members))
                     = cur[1].members
               /\ [cur'[1] EXCEPT !.members = cur[1].members] = cur[1]
       /\ pc = "stage4"
            => /\ Len(cur'[1].members) = Len(cur[1].members)
               /\ \A i \in 1..Len(cur[1].members) :
                     WithoutIncome(cur'[1].members[i])
                         = WithoutIncome(cur[1].members[i])
               /\ [cur'[1] EXCEPT !.members = cur[1].members] = cur[1]
       /\ apply_assign_expenses
            => LET before == households[Len(households)]
                   after == households'[Len(households')]
               IN  /\ Len(households') = Len(households)
                   /\ Stage1Fields(after) = Stage1Fields(before)
                   /\ WithoutExpenses(after) = WithoutExpenses(before)
                   /\ Len(after.members) = Len(before.members)
                   /\ \A i \in 1..Len(before.members) :
                         /\ after.members[i].age = before.members[i].age
                         /\ after.members[i].relationship
                               = before.members[i].relationship
                   /\ total_household_income(after)
                         = total_household_income(before)]_vars

\* all five stages have run on a household with children and income: Stage 5
\* has set a tax and a member's contribution
C30_Witness ==
    /\ pc = "done"
    /\ stagesRun = << 1, 2, 3, 4, 5 >>
    /\ LET household == households[Len(households)]
       IN  /\ household.state_income_tax > 0
           /\ household.ira_contributions > 0
           /\ total_household_income(household) > 0
           /\ \E i \in 1..Len(household.members) :
                 is_child(household.members[i])
           /\ \E i \in 1..Len(household.members) :
                 household.members[i].ira_contributions > 0

====
